---- MODULE Spec2Model ----
(***************************************************************************)
(* State machine of the TTLock integration's per-lock coordinator          *)
(* (custom_components/ttlock/coordinator.py) together with the event       *)
(* model (models.py) and the gateway lock of the API client (api.py).      *)
(*                                                                         *)
(* Python's None is the empty tuple and a present value x is <<x>>, so an  *)
(* optional field is compared without mixing types.  Timestamps are local  *)
(* seconds counted from a Monday 00:00:00.                                 *)
(***************************************************************************)
EXTENDS Integers, Sequences, FiniteSets, TLC

VARIABLES
    data,        \* data[l]: the coordinator's aggregate (self.data), None before the first successful poll
    poll,        \* poll[l]: position and locals of the running _async_update_data
    cmds,        \* cmds[l][i]: position of the i-th lock()/unlock() call in flight
    timers,      \* timers[l]: the _auto_locked tasks created and not yet run to completion
    svc,         \* svc[name]: position and locals of the running handler of service `name`
    gw_locked,   \* GW_LOCK._locked
    gw_waiters,  \* GW_LOCK._waiters, in arrival order
    hass_data,   \* hass.data[DOMAIN].get(entry_id): None once popped, else its TT_LOCKS (None until stored)
    last         \* the step taken last and its input (history variable)

vars == <<data, poll, cmds, timers, svc, gw_locked, gw_waiters, hass_data, last>>

None == <<>>
Some(x) == <<x>>
Val(o) == o[1]

----------------------------------------------------------------------------
(* Bounds of the model.                                                    *)

MaxCmds == 1      \* lock()/unlock() calls in flight at once, per lock
MaxTimers == 1    \* _auto_locked tasks pending at once, per lock

----------------------------------------------------------------------------
(* models.py                                                               *)

\* class State(Enum)
State_locked == 0
State_unlocked == 1
State_unknown == 2

\* class OnOff(Enum) and its __bool__
OnOff_unknown == 0
OnOff_on == 1
OnOff_off == 2
OnOffBool(v) == v = OnOff_on

EventDescription(action, description) == [action |-> action, description |-> description]

\* Event.EVENTS
EVENTS ==
    (1 :> EventDescription("unlock", "unlock by app")) @@
    (4 :> EventDescription("unlock", "unlock by passcode")) @@
    (7 :> EventDescription("unlock", "unlock by IC card")) @@
    (8 :> EventDescription("unlock", "unlock by fingerprint")) @@
    (9 :> EventDescription("unlock", "unlock by wrist strap")) @@
    (10 :> EventDescription("unlock", "unlock by Mechanical key")) @@
    (11 :> EventDescription("lock", "lock by app")) @@
    (12 :> EventDescription("unlock", "unlock by gateway")) @@
    (29 :> EventDescription("unknown", "apply some force on the Lock")) @@
    (30 :> EventDescription("unknown", "Door sensor closed")) @@
    (31 :> EventDescription("unknown", "Door sensor open")) @@
    (32 :> EventDescription("unknown", "open from inside")) @@
    (33 :> EventDescription("lock", "lock by fingerprint")) @@
    (34 :> EventDescription("lock", "lock by passcode")) @@
    (35 :> EventDescription("lock", "lock by IC card")) @@
    (36 :> EventDescription("lock", "lock by Mechanical key")) @@
    (37 :> EventDescription("unknown", "Remote Control")) @@
    (42 :> EventDescription("unknown", "received new local mail")) @@
    (43 :> EventDescription("unknown", "received new other cities' mail")) @@
    (44 :> EventDescription("unknown", "Tamper alert")) @@
    (45 :> EventDescription("lock", "Auto Lock")) @@
    (46 :> EventDescription("unlock", "unlock by unlock key")) @@
    (47 :> EventDescription("lock", "lock by lock key")) @@
    (48 :> EventDescription("unknown", "System locked")) @@
    (49 :> EventDescription("unlock", "unlock by hotel card")) @@
    (50 :> EventDescription("unlock", "unlocked due to the high temperature")) @@
    (51 :> EventDescription("unknown", "Try to unlock with a deleted card")) @@
    (52 :> EventDescription("unknown", "Dead lock with APP")) @@
    (53 :> EventDescription("unknown", "Dead lock with passcode")) @@
    (54 :> EventDescription("unknown", "The car left (for parking lock)")) @@
    (55 :> EventDescription("unlock", "unlock with key fob")) @@
    (57 :> EventDescription("unlock", "unlock with QR code success")) @@
    (58 :> EventDescription("unknown", "Unlock with QR code failed, it's expired")) @@
    (59 :> EventDescription("unknown", "Double locked")) @@
    (60 :> EventDescription("unknown", "Cancel double lock")) @@
    (61 :> EventDescription("lock", "Lock with QR code success")) @@
    (62 :> EventDescription("unknown", "Lock with QR code failed, the lock is double locked")) @@
    (63 :> EventDescription("unlock", "auto unlock at passage mode"))

\* Event._info
EventInfo(code) ==
    IF code \in DOMAIN EVENTS THEN EVENTS[code] ELSE EventDescription("unknown", "unknown")

\* Event.action
EventAction(code) == EventInfo(code).action

\* Event.description
EventDescriptionOf(code) == EventInfo(code).description

WebhookEventState_Swapped(event) ==
    IF event.success /\ EventAction(event.event) = "lock"
    THEN [locked |-> Some(State_unlocked)]
    ELSE IF event.success /\ EventAction(event.event) = "unlock"
    THEN [locked |-> Some(State_locked)]
    ELSE [locked |-> None]

WebhookEventState_IgnoresSuccess(event) ==
    IF EventAction(event.event) = "lock" THEN [locked |-> Some(State_locked)]
    ELSE IF EventAction(event.event) = "unlock" THEN [locked |-> Some(State_unlocked)]
    ELSE [locked |-> None]

\* WebhookEvent.state: a LockState model whose `locked` is a State or None
WebhookEventState(event) ==
    IF event.success /\ EventAction(event.event) = "lock"
    THEN [locked |-> Some(State_locked)]
    ELSE IF event.success /\ EventAction(event.event) = "unlock"
    THEN [locked |-> Some(State_unlocked)]
    ELSE [locked |-> None]

\* A tri-state field of a payload: OnOff(value), or the default
\* OnOff.unknown when the payload does not have the field
OnOffField(v) == IF v = None THEN OnOff_unknown ELSE Val(v)

\* PassageModeConfig._set_start_minute / _set_end_minute: `minute or 0`,
\* for a null field and for a field the payload does not have
MinuteOrZero(v) == IF v = None THEN 0 ELSE Val(v)

PassageModeConfigParse_UnknownIsOn(raw) ==
    [enabled |-> IF OnOffField(raw.passageMode) = OnOff_unknown THEN OnOff_on
                 ELSE OnOffField(raw.passageMode),
     start_minute |-> MinuteOrZero(raw.startDate),
     end_minute |-> MinuteOrZero(raw.endDate),
     all_day |-> OnOffField(raw.isAllDay),
     week_days |-> IF raw.weekDays = None THEN {} ELSE Val(raw.weekDays),
     auto_unlock |-> OnOffField(raw.autoUnlock)]

\* PassageModeConfig.parse_obj(res); week_days is read for membership only
\* and is kept as a set
PassageModeConfigParse(raw) ==
    [enabled |-> OnOffField(raw.passageMode),
     start_minute |-> MinuteOrZero(raw.startDate),
     end_minute |-> MinuteOrZero(raw.endDate),
     all_day |-> OnOffField(raw.isAllDay),
     week_days |-> IF raw.weekDays = None THEN {} ELSE Val(raw.weekDays),
     auto_unlock |-> OnOffField(raw.autoUnlock)]

\* EpochMs.validate: milliseconds since the epoch to a local instant (the
\* epoch of the model is a Monday 00:00:00 local time)
EpochMs(v) == v \div 1000

\* The fields of a webhook record that WebhookEvent declares with `...`
\* or without a default
RequiredFields(raw) ==
    /\ raw.lockId # None /\ raw.lockMac # None
    /\ raw.serverDate # None /\ raw.lockDate # None
    /\ raw.recordType # None /\ raw.success # None

\* Event.validate: "invalid record" for a code that is not a key of EVENTS
EventValidateRaises(v) == v \notin DOMAIN EVENTS

\* WebhookEvent.parse_obj(record): None when it raises ValidationError (a
\* ValueError), else the event.  The MAC is parsed and never read again.
WebhookEventParse(raw) ==
    IF ~RequiredFields(raw) THEN None
    ELSE IF EventValidateRaises(Val(raw.recordType)) THEN None
    ELSE Some([id |-> Val(raw.lockId),
               battery_level |-> raw.electricQuantity,
               server_ts |-> EpochMs(Val(raw.serverDate)),
               lock_ts |-> EpochMs(Val(raw.lockDate)),
               event |-> Val(raw.recordType),
               user |-> raw.username,
               success |-> Val(raw.success) = 1])

----------------------------------------------------------------------------
(* coordinator.py: the LockState dataclass and its queries                 *)

\* datetime.isoweekday() of a timestamp: 1 = Monday .. 7 = Sunday
IsoWeekday(ts) == ((ts \div 86400) % 7) + 1

\* current_date.hour * 60 + current_date.minute
MinuteOfDay(ts) == (ts % 86400) \div 60

passage_mode_active_ClosedInterval(state, current_date) ==
    IF state.passage_mode_config # None /\ OnOffBool(Val(state.passage_mode_config).enabled)
    THEN LET cfg == Val(state.passage_mode_config)
             current_day == IsoWeekday(current_date)
             current_minute == MinuteOfDay(current_date)
         IN  IF current_day \in cfg.week_days
             THEN IF OnOffBool(cfg.all_day)
                  THEN TRUE
                  ELSE cfg.start_minute <= current_minute /\ current_minute <= cfg.end_minute
             ELSE FALSE
    ELSE FALSE

passage_mode_active_WrapsMidnight(state, current_date) ==
    IF state.passage_mode_config # None /\ OnOffBool(Val(state.passage_mode_config).enabled)
    THEN LET cfg == Val(state.passage_mode_config)
             current_day == IsoWeekday(current_date)
             current_minute == MinuteOfDay(current_date)
         IN  IF current_day \in cfg.week_days
             THEN IF OnOffBool(cfg.all_day)
                  THEN TRUE
                  ELSE IF cfg.start_minute < cfg.end_minute
                  THEN cfg.start_minute <= current_minute /\ current_minute < cfg.end_minute
                  ELSE cfg.start_minute <= current_minute \/ current_minute < cfg.end_minute
             ELSE FALSE
    ELSE FALSE

\* LockState.passage_mode_active
passage_mode_active(state, current_date) ==
    IF state.passage_mode_config # None /\ OnOffBool(Val(state.passage_mode_config).enabled)
    THEN LET cfg == Val(state.passage_mode_config)
             current_day == IsoWeekday(current_date)
             current_minute == MinuteOfDay(current_date)
         IN  IF current_day \in cfg.week_days
             THEN IF OnOffBool(cfg.all_day)
                  THEN TRUE
                  ELSE cfg.start_minute <= current_minute /\ current_minute < cfg.end_minute
             ELSE FALSE
    ELSE FALSE

auto_lock_delay_NegativeOnly(state, current_date) ==
    IF state.auto_lock_seconds < 0 THEN None
    ELSE IF passage_mode_active(state, current_date) THEN None
    ELSE Some(state.auto_lock_seconds)

auto_lock_delay_IgnoresPassage(state, current_date) ==
    IF state.auto_lock_seconds <= 0 THEN None ELSE Some(state.auto_lock_seconds)

\* LockState.auto_lock_delay
auto_lock_delay(state, current_date) ==
    IF state.auto_lock_seconds <= 0 THEN None
    ELSE IF passage_mode_active(state, current_date) THEN None
    ELSE Some(state.auto_lock_seconds)

----------------------------------------------------------------------------
(* api.py: responses of the vendor API and the gateway lock                *)

\* TTLockApi._parse_resp: an HTTP status >= 400 or a non-zero errcode raises
ParseRespRaises(resp) == (~resp.status_ok) \/ resp.errcode # 0

\* TTLockApi.lock / TTLockApi.unlock, after GW_LOCK is released:
\* "raise" when get() raised, else False on a non-zero errcode, else True
ApiCommandResult(resp) ==
    IF ParseRespRaises(resp) THEN "raise"
    ELSE IF resp.errcode # 0 THEN "False"
    ELSE "True"

\* asyncio.Lock.acquire taken without waiting: unlocked and nobody queued
GwFree == (~gw_locked) /\ gw_waiters = <<>>

\* A task that is woken as the first waiter of GW_LOCK
GwFirst(task) == (~gw_locked) /\ gw_waiters # <<>> /\ Head(gw_waiters) = task

PollTask(l) == [lock |-> l, who |-> "poll", i |-> 0]
CmdTask(l, i) == [lock |-> l, who |-> "cmd", i |-> i]

----------------------------------------------------------------------------
(* coordinator.py: webhook reconciler and auto-lock scheduler              *)

\* _auto_locked: the time the task sleeps before it re-locks
AutoLockedSleep(seconds, offset) ==
    IF seconds > 0 /\ (seconds - offset) > 0 THEN seconds - offset ELSE 0

Max0(x) == IF x > 0 THEN x ELSE 0

HandleAutoLock_SignedOffset(self_data, lock_ts, server_ts) ==
    LET delay == auto_lock_delay(self_data, lock_ts)
    IN  IF delay = None THEN None
        ELSE Some([seconds |-> Val(delay), offset |-> server_ts - lock_ts])

\* LockUpdateCoordinator._handle_auto_lock: the arguments of the task it
\* creates, or None when it creates none
HandleAutoLock(self_data, lock_ts, server_ts) ==
    LET delay == auto_lock_delay(self_data, lock_ts)
        computed_msg_delay == Max0(server_ts - lock_ts)
    IN  IF delay = None THEN None
        ELSE Some([seconds |-> Val(delay), offset |-> computed_msg_delay])

\* What _process_webhook_data yields: `data` is self.data afterwards,
\* `calls` the invocations of _handle_auto_lock, `task` the task created,
\* `raised` whether the callback ended in an exception, `installed` whether
\* it reached async_set_updated_data.  NotApplied is a return before any
\* of it.
NotApplied(self_data) ==
    [data |-> self_data, calls |-> <<>>, task |-> None, raised |-> FALSE, installed |-> FALSE]

\* Lines 169-172: new_data.locked after the test of state.locked
SetLockedFromEvent(new_data, state) ==
    IF state.locked = Some(State_locked) THEN [new_data EXCEPT !.locked = Some(TRUE)]
    ELSE IF state.locked = Some(State_unlocked) THEN [new_data EXCEPT !.locked = Some(FALSE)]
    ELSE new_data

AutoLockCalls_SwappedTimestamps(lock_id, event, state) ==
    IF state.locked = Some(State_unlocked)
    THEN <<[lock |-> lock_id, lock_ts |-> event.server_ts, server_ts |-> event.lock_ts]>>
    ELSE <<>>

\* Line 173: the invocations of _handle_auto_lock and their arguments
AutoLockCalls(lock_id, event, state) ==
    IF state.locked = Some(State_unlocked)
    THEN <<[lock |-> lock_id, lock_ts |-> event.lock_ts, server_ts |-> event.server_ts]>>
    ELSE <<>>

SetActorFromEvent_Always(new_data, event, state) ==
    [new_data EXCEPT !.last_user = event.user,
                     !.last_reason = Some(EventDescriptionOf(event.event))]

\* Lines 175-177: last_user and last_reason after the test of state.locked
SetActorFromEvent(new_data, event, state) ==
    IF state.locked # None
    THEN [new_data EXCEPT !.last_user = event.user,
                          !.last_reason = Some(EventDescriptionOf(event.event))]
    ELSE new_data

\* Lines 165-179: the copy of self.data (which exists) updated from the
\* event and installed
ApplyWebhookEvent(self_data, lock_id, event) ==
    LET nd0 == [Val(self_data) EXCEPT !.battery_level = event.battery_level]
        state == WebhookEventState(event)
        nd1 == SetLockedFromEvent(nd0, state)
        calls == AutoLockCalls(lock_id, event, state)
        task == IF calls = <<>> THEN None
                ELSE HandleAutoLock(Val(self_data), calls[1].lock_ts, calls[1].server_ts)
        nd2 == SetActorFromEvent(nd1, event, state)
    IN  [data |-> Some(nd2), calls |-> calls, task |-> task, raised |-> FALSE,
         installed |-> TRUE]

ProcessWebhookData_IgnoresSuccess(self_data, lock_id, event) ==
    IF event.id # lock_id THEN NotApplied(self_data)
    ELSE IF self_data = None THEN [NotApplied(self_data) EXCEPT !.raised = TRUE]
    ELSE ApplyWebhookEvent(self_data, lock_id, [event EXCEPT !.success = TRUE])

ProcessWebhookData_BatteryOnFailure(self_data, lock_id, event) ==
    IF event.id # lock_id THEN NotApplied(self_data)
    ELSE IF self_data = None THEN [NotApplied(self_data) EXCEPT !.raised = TRUE]
    ELSE IF ~event.success
    THEN [NotApplied(self_data) EXCEPT
            !.data = Some([Val(self_data) EXCEPT !.battery_level = event.battery_level]),
            !.installed = TRUE]
    ELSE ApplyWebhookEvent(self_data, lock_id, event)

ProcessWebhookData_AnyLock(self_data, lock_id, event) ==
    IF ~event.success THEN NotApplied(self_data)
    ELSE IF self_data = None THEN [NotApplied(self_data) EXCEPT !.raised = TRUE]
    ELSE ApplyWebhookEvent(self_data, lock_id, event)

ProcessWebhookData_CreatesAggregate(self_data, lock_id, event) ==
    IF event.id # lock_id THEN NotApplied(self_data)
    ELSE IF ~event.success THEN NotApplied(self_data)
    ELSE ApplyWebhookEvent(
             IF self_data # None THEN self_data
             ELSE Some([name |-> "", mac |-> "", model |-> None,
                        battery_level |-> None, hardware_version |-> None,
                        firmware_version |-> None, features |-> None,
                        locked |-> None, action_pending |-> FALSE, last_user |-> None,
                        last_reason |-> None, auto_lock_seconds |-> -1,
                        passage_mode_config |-> None]),
             lock_id, event)

\* LockUpdateCoordinator._process_webhook_data, as run by the coordinator of
\* lock_id whose aggregate is self_data.  On self.data = None the assignment
\* to new_data.battery_level raises AttributeError.
ProcessWebhookData(self_data, lock_id, event) ==
    IF event.id # lock_id THEN NotApplied(self_data)
    ELSE IF ~event.success THEN NotApplied(self_data)
    ELSE IF self_data = None THEN [NotApplied(self_data) EXCEPT !.raised = TRUE]
    ELSE ApplyWebhookEvent(self_data, lock_id, event)

AutoLocked_ClearsUser(self_data) ==
    [self_data EXCEPT !.locked = Some(TRUE), !.last_reason = Some("Auto Lock"),
                      !.last_user = None]

\* _auto_locked after its sleep: the aggregate it installs
AutoLocked(self_data) ==
    [self_data EXCEPT !.locked = Some(TRUE), !.last_reason = Some("Auto Lock")]

Locks == DOMAIN data
TimerSlots == 1..MaxTimers
CmdSlots == 1..MaxCmds

FreeTimerSlots(l) == {s \in DOMAIN timers[l] : timers[l][s] = None}
MinOf(S) == CHOOSE x \in S : \A y \in S : x <= y

\* `last`: the step taken last, the lock it was about, for a webhook step
\* the event delivered and the _handle_auto_lock invocations made, the
\* timer or command slot the step used, and for the steps that take an input
\* and yield an outcome, both (`arg`, `res`)
NoStep ==
    [op |-> "init", lock |-> 0, ev |-> None, calls |-> <<>>, slot |-> 0,
     arg |-> None, res |-> None]

\* The lock ids client.get_locks() answers with.  Every async_setup_entry
\* creates one coordinator per lock id and connects it to SIGNAL_NEW_DATA;
\* the coordinator that the n-th setup (counted from 0) creates for lock id i
\* has the key i + n * Cardinality(AccountLocks), so that the coordinators
\* of the first setup are keyed by their lock ids
AccountLocks == {1, 2}
LockIdOf(c) == ((c - 1) % Cardinality(AccountLocks)) + 1
SetupOf(c) == (c - 1) \div Cardinality(AccountLocks)

\* The coordinators as a dispatch finds them.  `fits` is false when a task
\* was created beyond MaxTimers; `calls` and `slot` are those of the event
\* dispatched last; `raised` tells whether a callback ended in an exception;
\* `dispatched` lists the events sent so far and `aborted` tells whether
\* the handler stopped on a ValueError.
Coordinators ==
    [data |-> data, timers |-> timers, poll |-> poll, fits |-> TRUE,
     calls |-> <<>>, slot |-> 0, raised |-> FALSE, dispatched |-> <<>>, aborted |-> FALSE]

DispatchEvent_EagerTask(st, e) ==
    LET L == DOMAIN st.data
        r == [l \in L |-> ProcessWebhookData(st.data[l], LockIdOf(l), e)]
        sched == {l \in L : r[l].task # None}
        wait == [l \in sched |-> AutoLockedSleep(Val(r[l].task).seconds, Val(r[l].task).offset)]
        later == {l \in sched : wait[l] > 0}
        free == [l \in L |-> {s \in DOMAIN st.timers[l] : st.timers[l][s] = None}]
    IN  [st EXCEPT
           !.data = [l \in L |-> IF l \in sched \ later THEN Some(AutoLocked(Val(r[l].data)))
                                  ELSE r[l].data],
           !.timers = [l \in L |->
                         IF l \in later /\ free[l] # {}
                         THEN [st.timers[l] EXCEPT ![MinOf(free[l])] = Some([wait |-> wait[l]])]
                         ELSE st.timers[l]],
           !.fits = st.fits /\ \A l \in later : free[l] # {},
           !.calls = IF e.id \in L THEN r[e.id].calls ELSE <<>>,
           !.slot = IF e.id \in later /\ free[e.id] # {} THEN MinOf(free[e.id]) ELSE 0,
           !.raised = st.raised \/ \E l \in L : r[l].raised,
           !.dispatched = Append(st.dispatched, e)]

DispatchEvent_Supersedes(st, e) ==
    LET L == DOMAIN st.data
        r == [l \in L |-> ProcessWebhookData(st.data[l], LockIdOf(l), e)]
        sched == {l \in L : r[l].task # None}
    IN  [st EXCEPT
           !.data = [l \in L |-> r[l].data],
           !.timers = [l \in L |->
                         IF l \in sched
                         THEN [s \in DOMAIN st.timers[l] |->
                                 IF s = 1
                                 THEN Some([wait |-> AutoLockedSleep(Val(r[l].task).seconds,
                                                                     Val(r[l].task).offset)])
                                 ELSE None]
                         ELSE st.timers[l]],
           !.poll = [l \in L |->
                       IF r[l].installed /\ WebhookEventState(e).locked # None
                          /\ st.poll[l].new_data # None
                       THEN [st.poll[l] EXCEPT !.pushed = TRUE]
                       ELSE st.poll[l]],
           !.calls = IF e.id \in L THEN r[e.id].calls ELSE <<>>,
           !.slot = IF e.id \in sched THEN 1 ELSE 0,
           !.raised = st.raised \/ \E l \in L : r[l].raised,
           !.dispatched = Append(st.dispatched, e)]

\* async_dispatcher_send(SIGNAL_NEW_DATA, event): every coordinator's
\* _process_webhook_data runs, one after the other, without suspension
DispatchEvent(st, e) ==
    LET L == DOMAIN st.data
        r == [l \in L |-> ProcessWebhookData(st.data[l], LockIdOf(l), e)]
        sched == {l \in L : r[l].task # None}
        free == [l \in L |-> {s \in DOMAIN st.timers[l] : st.timers[l][s] = None}]
    IN  [st EXCEPT
           !.data = [l \in L |-> r[l].data],
           !.timers = [l \in L |->
                         IF l \in sched /\ free[l] # {}
                         THEN [st.timers[l] EXCEPT ![MinOf(free[l])] =
                                 Some([wait |-> AutoLockedSleep(Val(r[l].task).seconds,
                                                                Val(r[l].task).offset)])]
                         ELSE st.timers[l]],
           !.poll = [l \in L |->
                       IF r[l].installed /\ WebhookEventState(e).locked # None
                          /\ st.poll[l].new_data # None
                       THEN [st.poll[l] EXCEPT !.pushed = TRUE]
                       ELSE st.poll[l]],
           !.fits = st.fits /\ \A l \in sched : free[l] # {},
           !.calls = IF e.id \in L THEN r[e.id].calls ELSE <<>>,
           !.slot = IF e.id \in sched /\ free[e.id] # {} THEN MinOf(free[e.id]) ELSE 0,
           !.raised = st.raised \/ \E l \in L : r[l].raised,
           !.dispatched = Append(st.dispatched, e)]

\* One parsed event is dispatched
Webhook(e) ==
    \E st \in {DispatchEvent(Coordinators, e)} :
        /\ st.fits
        /\ data' = st.data
        /\ timers' = st.timers
        /\ poll' = st.poll
        /\ last' = [NoStep EXCEPT !.op = "webhook", !.lock = e.id, !.ev = Some(e),
                                  !.calls = st.calls, !.slot = st.slot]
        /\ UNCHANGED <<cmds, svc, gw_locked, gw_waiters, hass_data>>

\* WebhookHandler.handle_webhook, the loop over the records of a delivery:
\* a record that does not parse raises ValueError out of the loop, which is
\* logged, and the handler returns
RECURSIVE DispatchRecords(_, _)
DispatchRecords(st, records) ==
    IF records = <<>> THEN st
    ELSE LET event == WebhookEventParse(Head(records))
         IN  IF event = None THEN [st EXCEPT !.aborted = TRUE]
             ELSE DispatchRecords(DispatchEvent(st, Val(event)), Tail(records))

\* A delivery of the vendor reaches the webhook: handle_webhook from the
\* return of request.post() to its end, which has no suspension point
HandleWebhook(records) ==
    \E st \in {DispatchRecords(Coordinators, records)} :
        /\ st.fits
        /\ data' = st.data
        /\ timers' = st.timers
        /\ poll' = st.poll
        /\ last' = [NoStep EXCEPT !.op = "handle_webhook", !.arg = Some(records),
                                  !.res = Some([dispatched |-> st.dispatched,
                                                aborted |-> st.aborted,
                                                raised |-> st.raised])]
        /\ UNCHANGED <<cmds, svc, gw_locked, gw_waiters, hass_data>>

\* (history) The task in timer slot s of lock l was created by the event
\* last.ev, and nothing but the passage of time has happened since
JustScheduled(l, s) ==
    /\ last.op \in {"webhook", "tick"} /\ last.ev # None
    /\ last.lock = l /\ last.slot = s
    /\ timers[l][s] # None

TimerFire_UnlessLocked(l, s) ==
    /\ timers[l][s] # None
    /\ Val(timers[l][s]).wait = 0
    /\ data' = [data EXCEPT ![l] =
                  IF Val(data[l]).locked = Some(TRUE) THEN data[l]
                  ELSE Some(AutoLocked(Val(data[l])))]
    /\ timers' = [timers EXCEPT ![l][s] = None]
    /\ last' = [NoStep EXCEPT !.op = IF Val(data[l]).locked = Some(TRUE) THEN "cancelled"
                                      ELSE "timer",
                              !.lock = l, !.slot = s]
    /\ UNCHANGED <<poll, cmds, svc, gw_locked, gw_waiters, hass_data>>

TimerFire_Rechecks(l, s) ==
    /\ timers[l][s] # None
    /\ Val(timers[l][s]).wait = 0
    /\ data' = [data EXCEPT ![l] =
                  IF auto_lock_delay(Val(data[l]), 5 * 86400 + 19 * 3600) = None THEN data[l]
                  ELSE Some(AutoLocked(Val(data[l])))]
    /\ timers' = [timers EXCEPT ![l][s] = None]
    /\ last' = [NoStep EXCEPT !.op = "timer", !.lock = l, !.slot = s]
    /\ UNCHANGED <<poll, cmds, svc, gw_locked, gw_waiters, hass_data>>

\* An _auto_locked task whose sleep is over runs to its end (`last` keeps
\* the event that created it when nothing else happened in between)
TimerFire(l, s) ==
    /\ timers[l][s] # None
    /\ Val(timers[l][s]).wait = 0
    /\ data' = [data EXCEPT ![l] = Some(AutoLocked(Val(data[l])))]
    /\ timers' = [timers EXCEPT ![l][s] = None]
    /\ last' = [NoStep EXCEPT !.op = "timer", !.lock = l, !.slot = s,
                              !.ev = IF JustScheduled(l, s) THEN last.ev ELSE None]
    /\ UNCHANGED <<poll, cmds, svc, gw_locked, gw_waiters, hass_data>>

\* One second passes: every sleeping _auto_locked task is one second closer
Tick ==
    /\ \E l \in Locks : \E s \in DOMAIN timers[l] :
          timers[l][s] # None /\ Val(timers[l][s]).wait > 0
    /\ timers' = [l \in Locks |-> [s \in DOMAIN timers[l] |->
                    IF timers[l][s] # None /\ Val(timers[l][s]).wait > 0
                    THEN Some([Val(timers[l][s]) EXCEPT !.wait = @ - 1])
                    ELSE timers[l][s]]]
    /\ last' = [last EXCEPT !.op = "tick"]
    /\ UNCHANGED <<data, poll, cmds, svc, gw_locked, gw_waiters, hass_data>>

----------------------------------------------------------------------------
(* coordinator.py: poll reconciler                                         *)

\* Features.from_feature_value: the set bits of the hex-encoded bitmask
HexDigit ==
    ("0" :> 0) @@ ("1" :> 1) @@ ("2" :> 2) @@ ("3" :> 3) @@ ("4" :> 4) @@ ("5" :> 5) @@
    ("6" :> 6) @@ ("7" :> 7) @@ ("8" :> 8) @@ ("9" :> 9) @@ ("A" :> 10) @@ ("B" :> 11) @@
    ("C" :> 12) @@ ("D" :> 13) @@ ("E" :> 14) @@ ("F" :> 15)

RECURSIVE HexToInt(_)
HexToInt(digits) ==
    IF digits = <<>> THEN 0
    ELSE 16 * HexToInt(SubSeq(digits, 1, Len(digits) - 1)) + HexDigit[digits[Len(digits)]]

RECURSIVE Pow2(_)
Pow2(n) == IF n = 0 THEN 1 ELSE 2 * Pow2(n - 1)

FromFeatureValue(value) ==
    IF value = None THEN {}
    ELSE {b \in 0..(4 * Len(Val(value)) - 1) : (HexToInt(Val(value)) \div Pow2(b)) % 2 = 1}

\* LockState(name=..., mac=..., model=..., features=...): the other fields
\* take the dataclass defaults
NewLockState(details) ==
    [name |-> details.name, mac |-> details.mac, model |-> details.model,
     battery_level |-> None, hardware_version |-> None, firmware_version |-> None,
     features |-> Some(FromFeatureValue(details.featureValue)),
     locked |-> None, action_pending |-> FALSE, last_user |-> None, last_reason |-> None,
     auto_lock_seconds |-> -1, passage_mode_config |-> None]

MergeDetails_OnlyExisting(self_data, details) ==
    IF self_data = None THEN NewLockState(details)
    ELSE [Val(self_data) EXCEPT !.name = details.name,
                                !.battery_level = details.battery_level,
                                !.hardware_version = details.hardwareRevision,
                                !.firmware_version = details.firmwareRevision]

\* _async_update_data, from the return of get_lock to the test of
\* new_data.locked: the copy of self.data with the mutable attributes updated
MergeDetails(self_data, details) ==
    LET new_data == IF self_data # None THEN Val(self_data) ELSE NewLockState(details)
    IN  [new_data EXCEPT !.name = details.name,
                         !.battery_level = details.battery_level,
                         !.hardware_version = details.hardwareRevision,
                         !.firmware_version = details.firmwareRevision]

LockedFromState_NotUnlocked(state) == Some(state.locked # Some(State_unlocked))

\* new_data.locked = state.locked == State.locked
LockedFromState(state) == Some(state.locked = Some(State_locked))

\* `pushed` (history): since new_data was copied from self.data, a webhook
\* event with a resulting state has been applied to self.data
PollIdle == [pc |-> "idle", details |-> None, new_data |-> None, pushed |-> FALSE]

\* The refresh of the coordinator starts: api.get_lock is awaited
PollStart(l) ==
    /\ poll[l].pc = "idle"
    /\ poll' = [poll EXCEPT ![l].pc = "get_lock"]
    /\ last' = [NoStep EXCEPT !.op = "poll_start", !.lock = l]
    /\ UNCHANGED <<data, cmds, svc, timers, gw_locked, gw_waiters, hass_data>>

\* get_lock raised: UpdateFailed, self.data is kept
PollDetailsFailed(l, resp) ==
    /\ poll[l].pc = "get_lock"
    /\ ParseRespRaises(resp)
    /\ poll' = [poll EXCEPT ![l] = PollIdle]
    /\ last' = [NoStep EXCEPT !.op = "poll_failed", !.lock = l]
    /\ UNCHANGED <<data, cmds, svc, timers, gw_locked, gw_waiters, hass_data>>

PollGotDetails_AlwaysQueries(l, details) ==
    /\ poll[l].pc = "get_lock"
    /\ poll' = [poll EXCEPT ![l] =
                  [pc |-> IF GwFree THEN "get_lock_state" ELSE "gw_wait",
                   details |-> Some(details),
                   new_data |-> Some(MergeDetails(data[l], details)),
                   pushed |-> FALSE]]
    /\ gw_locked' = (gw_locked \/ GwFree)
    /\ gw_waiters' = IF GwFree THEN gw_waiters ELSE Append(gw_waiters, PollTask(l))
    /\ last' = [NoStep EXCEPT !.op = "poll_details", !.lock = l]
    /\ UNCHANGED <<data, cmds, svc, timers, hass_data>>

\* get_lock returned: self.data is copied and merged; then either the state
\* query is started (through GW_LOCK) or the passage mode query
PollGotDetails(l, details) ==
    /\ poll[l].pc = "get_lock"
    /\ LET new_data == MergeDetails(data[l], details)
       IN  IF new_data.locked = None
           THEN /\ poll' = [poll EXCEPT ![l] =
                              [pc |-> IF GwFree THEN "get_lock_state" ELSE "gw_wait",
                               details |-> Some(details), new_data |-> Some(new_data),
                               pushed |-> FALSE]]
                /\ gw_locked' = (gw_locked \/ GwFree)
                /\ gw_waiters' = IF GwFree THEN gw_waiters
                                 ELSE Append(gw_waiters, PollTask(l))
           ELSE /\ poll' = [poll EXCEPT ![l] =
                              [pc |-> "get_passage", details |-> Some(details),
                               new_data |-> Some([new_data EXCEPT
                                   !.auto_lock_seconds = details.autoLockTime]),
                               pushed |-> FALSE]]
                /\ UNCHANGED <<gw_locked, gw_waiters>>
    /\ last' = [NoStep EXCEPT !.op = "poll_details", !.lock = l]
    /\ UNCHANGED <<data, cmds, svc, timers, hass_data>>

\* The poll is woken as first waiter of GW_LOCK and sends the state query
PollGwAcquired(l) ==
    /\ poll[l].pc = "gw_wait"
    /\ GwFirst(PollTask(l))
    /\ gw_locked' = TRUE
    /\ gw_waiters' = Tail(gw_waiters)
    /\ poll' = [poll EXCEPT ![l].pc = "get_lock_state"]
    /\ last' = [NoStep EXCEPT !.op = "gw_acquired", !.lock = l]
    /\ UNCHANGED <<data, cmds, svc, timers, hass_data>>

PollGotState_FailsCycle(l, resp, state) ==
    /\ poll[l].pc = "get_lock_state"
    /\ gw_locked' = FALSE
    /\ IF ParseRespRaises(resp)
       THEN /\ poll' = [poll EXCEPT ![l] = PollIdle]
            /\ last' = [NoStep EXCEPT !.op = "poll_failed", !.lock = l]
       ELSE /\ poll' = [poll EXCEPT
                          ![l].pc = "get_passage",
                          ![l].new_data =
                              Some([Val(poll[l].new_data) EXCEPT
                                      !.locked = LockedFromState(state),
                                      !.auto_lock_seconds = Val(poll[l].details).autoLockTime])]
            /\ last' = [NoStep EXCEPT !.op = "poll_state", !.lock = l, !.arg = Some(state),
                                      !.res = Some("returned")]
    /\ UNCHANGED <<data, cmds, svc, timers, gw_waiters, hass_data>>

\* get_lock_state returned `state`, or raised when resp is an error: GW_LOCK is
\* released, an exception is swallowed, and the passage mode query is sent
PollGotState(l, resp, state) ==
    /\ poll[l].pc = "get_lock_state"
    /\ gw_locked' = FALSE
    /\ LET nd == Val(poll[l].new_data)
           nd1 == IF ParseRespRaises(resp) THEN nd ELSE [nd EXCEPT !.locked = LockedFromState(state)]
           nd2 == [nd1 EXCEPT !.auto_lock_seconds = Val(poll[l].details).autoLockTime]
       IN  poll' = [poll EXCEPT ![l].pc = "get_passage", ![l].new_data = Some(nd2)]
    /\ last' = [NoStep EXCEPT !.op = "poll_state", !.lock = l,
                              !.arg = IF ParseRespRaises(resp) THEN None ELSE Some(state),
                              !.res = Some(IF ParseRespRaises(resp) THEN "raised" ELSE "returned")]
    /\ UNCHANGED <<data, cmds, svc, timers, gw_waiters, hass_data>>

\* get_lock_passage_mode_config returned the parsed answer `res`: new_data
\* becomes self.data
PollGotPassage(l, res) ==
    /\ poll[l].pc = "get_passage"
    /\ data' = [data EXCEPT ![l] =
                  Some([Val(poll[l].new_data) EXCEPT
                          !.passage_mode_config = Some(PassageModeConfigParse(res))])]
    /\ poll' = [poll EXCEPT ![l] = PollIdle]
    /\ last' = [NoStep EXCEPT !.op = "poll_done", !.lock = l, !.arg = Some(res)]
    /\ UNCHANGED <<cmds, svc, timers, gw_locked, gw_waiters, hass_data>>

PollPassageFailed_AppliesFetched(l, resp) ==
    /\ poll[l].pc = "get_passage"
    /\ ParseRespRaises(resp)
    /\ data' = [data EXCEPT ![l] = poll[l].new_data]
    /\ poll' = [poll EXCEPT ![l] = PollIdle]
    /\ last' = [NoStep EXCEPT !.op = "poll_failed", !.lock = l, !.res = poll[l].new_data]
    /\ UNCHANGED <<cmds, svc, timers, gw_locked, gw_waiters, hass_data>>

\* get_lock_passage_mode_config raised: UpdateFailed, self.data is kept
\* (`last` keeps the new_data that is dropped)
PollPassageFailed(l, resp) ==
    /\ poll[l].pc = "get_passage"
    /\ ParseRespRaises(resp)
    /\ poll' = [poll EXCEPT ![l] = PollIdle]
    /\ last' = [NoStep EXCEPT !.op = "poll_failed", !.lock = l, !.res = poll[l].new_data]
    /\ UNCHANGED <<data, cmds, svc, timers, gw_locked, gw_waiters, hass_data>>

\* _async_update_data run from self_data on the answers of one poll
\* response, every fetch of which succeeds: the aggregate it returns
PollCycle(self_data, response) ==
    LET nd0 == MergeDetails(self_data, response.details)
        nd1 == IF nd0.locked = None
               THEN [nd0 EXCEPT !.locked = LockedFromState(response.state)]
               ELSE nd0
    IN  [nd1 EXCEPT !.auto_lock_seconds = response.details.autoLockTime,
                    !.passage_mode_config = Some(PassageModeConfigParse(response.config))]

----------------------------------------------------------------------------
(* coordinator.py: the queries of the aggregate, as its readers call them   *)

\* datetime(…): the instant of weekday wd (1 = Monday), hour h, minute m,
\* second sec
TimeAt(clock) == (clock.wd - 1) * 86400 + clock.h * 3600 + clock.m * 60 + clock.sec

\* self.data.passage_mode_active(current_date) is read
QueryPassageModeActive(l, clock) ==
    /\ data[l] # None
    /\ last' = [NoStep EXCEPT !.op = "passage_mode_active", !.lock = l,
                              !.arg = Some(clock),
                              !.res = Some(passage_mode_active(Val(data[l]), TimeAt(clock)))]
    /\ UNCHANGED <<data, poll, cmds, svc, timers, gw_locked, gw_waiters, hass_data>>

\* self.data.auto_lock_delay(current_date) is read
QueryAutoLockDelay(l, clock) ==
    /\ data[l] # None
    /\ last' = [NoStep EXCEPT !.op = "auto_lock_delay", !.lock = l,
                              !.arg = Some(clock),
                              !.res = Some(auto_lock_delay(Val(data[l]), TimeAt(clock)))]
    /\ UNCHANGED <<data, poll, cmds, svc, timers, gw_locked, gw_waiters, hass_data>>

\* `current_date: datetime = dt.now()`: the default of passage_mode_active
\* is evaluated once, when the def statement runs as coordinator.py is
\* imported; here that was on Wednesday at 05:59:59
ImportClock == [wd |-> 3, h |-> 5, m |-> 59, sec |-> 59]

\* PassageMode._update_from_coordinator runs when the clock shows `clock`:
\* self.coordinator.data.passage_mode_active() is read without an argument
PassageModeSensorUpdate(l, clock) ==
    /\ data[l] # None
    /\ TimeAt(clock) >= TimeAt(ImportClock)
    /\ last' = [NoStep EXCEPT !.op = "sensor_update", !.lock = l,
                              !.arg = Some(clock),
                              !.res = Some(passage_mode_active(Val(data[l]),
                                                               TimeAt(ImportClock)))]
    /\ UNCHANGED <<data, poll, cmds, svc, timers, gw_locked, gw_waiters, hass_data>>

----------------------------------------------------------------------------
(* coordinator.py: lock() and unlock() under lock_action                   *)

CmdIdle == [pc |-> "idle", kind |-> "none"]

IdleCmdSlots(l) == {i \in CmdSlots : cmds[l][i].pc = "idle"}

\* Commands of lock l whose remote call has been started and not finished
InFlight(l) == {i \in CmdSlots : cmds[l][i].pc # "idle"}

\* lock_action entry: self.data.action_pending = True
LockActionEnter(self_data) == [self_data EXCEPT !.action_pending = TRUE]

\* lock_action exit (finally): self.data.action_pending = False
LockActionExit(self_data) == [self_data EXCEPT !.action_pending = FALSE]

ApplyCommandResult_Optimistic(self_data, kind, res) ==
    [self_data EXCEPT !.locked = Some(kind = "lock")]

\* `if res: self.data.locked = ...` of lock() and unlock()
ApplyCommandResult(self_data, kind, res) ==
    IF res = "True" THEN [self_data EXCEPT !.locked = Some(kind = "lock")] ELSE self_data

\* lock()/unlock() is called: action_pending is set and api.lock/api.unlock
\* is awaited (it takes GW_LOCK or queues for it)
CmdStart(l, kind) ==
    /\ data[l] # None
    /\ IdleCmdSlots(l) # {}
    /\ LET i == MinOf(IdleCmdSlots(l))
       IN  /\ cmds' = [cmds EXCEPT ![l][i] =
                         [pc |-> IF GwFree THEN "http" ELSE "gw_wait", kind |-> kind]]
           /\ gw_waiters' = IF GwFree THEN gw_waiters ELSE Append(gw_waiters, CmdTask(l, i))
           /\ last' = [NoStep EXCEPT !.op = "cmd_start", !.lock = l, !.slot = i]
    /\ gw_locked' = (gw_locked \/ GwFree)
    /\ data' = [data EXCEPT ![l] = Some(LockActionEnter(Val(data[l])))]
    /\ UNCHANGED <<poll, timers, svc, hass_data>>

\* The command is woken as first waiter of GW_LOCK and sends its request
CmdGwAcquired(l, i) ==
    /\ cmds[l][i].pc = "gw_wait"
    /\ GwFirst(CmdTask(l, i))
    /\ gw_locked' = TRUE
    /\ gw_waiters' = Tail(gw_waiters)
    /\ cmds' = [cmds EXCEPT ![l][i].pc = "http"]
    /\ last' = [NoStep EXCEPT !.op = "gw_acquired", !.lock = l, !.slot = i]
    /\ UNCHANGED <<data, poll, timers, svc, hass_data>>

CmdDone_KeepsLockOnRaise(l, i, resp) ==
    /\ cmds[l][i].pc = "http"
    /\ gw_locked' = (ApiCommandResult(resp) = "raise")
    /\ LET res == ApiCommandResult(resp)
       IN  /\ data' = [data EXCEPT ![l] =
                         Some(LockActionExit(ApplyCommandResult(Val(data[l]), cmds[l][i].kind, res)))]
           /\ last' = [NoStep EXCEPT !.op = IF res = "True" THEN "cmd_ok"
                                             ELSE IF res = "False" THEN "cmd_false"
                                             ELSE "cmd_raised",
                                     !.lock = l, !.slot = i]
    /\ cmds' = [cmds EXCEPT ![l][i] = CmdIdle]
    /\ UNCHANGED <<poll, timers, svc, gw_waiters, hass_data>>

\* The remote call ends with response resp: GW_LOCK is released, `locked` is
\* set on success, and lock_action's finally clears action_pending
CmdDone(l, i, resp) ==
    /\ cmds[l][i].pc = "http"
    /\ gw_locked' = FALSE
    /\ LET res == ApiCommandResult(resp)
       IN  /\ data' = [data EXCEPT ![l] =
                         Some(LockActionExit(ApplyCommandResult(Val(data[l]), cmds[l][i].kind, res)))]
           /\ last' = [NoStep EXCEPT !.op = IF res = "True" THEN "cmd_ok"
                                             ELSE IF res = "False" THEN "cmd_false"
                                             ELSE "cmd_raised",
                                     !.lock = l, !.slot = i]
    /\ cmds' = [cmds EXCEPT ![l][i] = CmdIdle]
    /\ UNCHANGED <<poll, timers, svc, gw_waiters, hass_data>>

----------------------------------------------------------------------------
(* services.py: the service handlers, and the API calls they await         *)

\* The calls that run as tasks of their own: the three service handlers and
\* TTLockApi.delete_outdated_pass_codes
ServiceNames ==
    {"configure_passage_mode", "create_passcode", "cleanup_passcodes",
     "delete_outdated_pass_codes"}

\* A handler that is not running.  While it runs: `todo` are the
\* coordinators not yet done (the first one is being worked on), `arg` the
\* config or clock reading of the call, `codes` the passcodes of the current
\* lock not yet gone through (the first one is being deleted), `removed`
\* the names collected; (history) `calls` the gateway-routed API calls made
\* and `listed` the listings received.
SvcIdle ==
    [pc |-> "idle", todo |-> <<>>, arg |-> None, codes |-> <<>>, removed |-> <<>>,
     calls |-> <<>>, listed |-> <<>>]

SvcTask(name) == [lock |-> 0, who |-> name, i |-> 0]

\* Services._get_coordinators: the coordinators of the entities named, in
\* their order; an entity exists once its coordinator has its first data
GetCoordinators(entity_ids) ==
    SelectSeq(entity_ids, LAMBDA l : l \in Locks /\ data[l] # None)

GwEnter_NoWait(locked, waiters, task) ==
    [pc |-> "http", locked |-> TRUE, waiters |-> waiters]

\* `async with GW_LOCK` entered by `task` when the lock is `locked` and has
\* `waiters`: taken at once when free and nobody is queued, else queued for
GwEnter(locked, waiters, task) ==
    IF (~locked) /\ waiters = <<>>
    THEN [pc |-> "http", locked |-> TRUE, waiters |-> waiters]
    ELSE [pc |-> "gw_wait", locked |-> locked, waiters |-> Append(waiters, task)]

\* The step of a service handler (`last`)
SvcStep(op, name, l, input, res) ==
    [NoStep EXCEPT !.op = op, !.lock = l,
                   !.arg = Some([service |-> name, input |-> input]), !.res = res]

\* handle_configure_passage_mode, lines 103-114: the PassageModeConfig built
\* from the call data
ConfigFromCall(call) ==
    PassageModeConfigParse(
        [passageMode |-> Some(IF call.enabled THEN OnOff_on ELSE OnOff_off),
         autoUnlock |-> Some(IF call.auto_unlock THEN OnOff_on ELSE OnOff_off),
         isAllDay |-> Some(IF call.all_day THEN OnOff_on ELSE OnOff_off),
         startDate |-> Some(call.start_time.hour * 60 + call.start_time.minute),
         endDate |-> Some(call.end_time.hour * 60 + call.end_time.minute),
         weekDays |-> Some(call.week_days)])

\* A handler whose loop over the coordinators awaits one gateway-routed call
\* per coordinator is called: with nothing to do it returns, else the call
\* for the first coordinator is awaited
SvcLoopStart(name, entity_ids, arg, input) ==
    /\ svc[name].pc = "idle"
    /\ LET todo == GetCoordinators(entity_ids)
       IN  IF todo = <<>>
           THEN /\ last' = SvcStep("svc_returned", name, 0, input, None)
                /\ UNCHANGED <<svc, gw_locked, gw_waiters>>
           ELSE \E gw \in {GwEnter(gw_locked, gw_waiters, SvcTask(name))} :
                /\ svc' = [svc EXCEPT ![name] =
                             [SvcIdle EXCEPT !.pc = gw.pc, !.todo = todo, !.arg = Some(arg),
                                             !.calls = <<Head(todo)>>]]
                /\ gw_locked' = gw.locked
                /\ gw_waiters' = gw.waiters
                /\ last' = SvcStep("svc_start", name, Head(todo), input, None)
    /\ UNCHANGED <<data, poll, cmds, timers, hass_data>>

\* The gateway-routed call of such a handler ends with `resp`: GW_LOCK is
\* released; an exception ends the handler, else `new_data` is the
\* aggregate of the coordinator afterwards and the loop goes on
SvcLoopCallDone(name, resp, new_data) ==
    /\ svc[name].pc = "http"
    /\ LET l == Head(svc[name].todo)
           rest == Tail(svc[name].todo)
       IN  IF ParseRespRaises(resp)
           THEN /\ svc' = [svc EXCEPT ![name] = SvcIdle]
                /\ gw_locked' = FALSE
                /\ last' = SvcStep("svc_raised", name, l, resp, None)
                /\ UNCHANGED <<data, gw_waiters>>
           ELSE /\ data' = [data EXCEPT ![l] = Some(new_data)]
                /\ IF rest = <<>>
                   THEN /\ svc' = [svc EXCEPT ![name] = SvcIdle]
                        /\ gw_locked' = FALSE
                        /\ last' = SvcStep("svc_returned", name, l, resp, None)
                        /\ UNCHANGED gw_waiters
                   ELSE \E gw \in {GwEnter(FALSE, gw_waiters, SvcTask(name))} :
                        /\ svc' = [svc EXCEPT ![name].pc = gw.pc, ![name].todo = rest,
                                              ![name].calls = Append(@, Head(rest))]
                        /\ gw_locked' = gw.locked
                        /\ gw_waiters' = gw.waiters
                        /\ last' = SvcStep("svc_call_ok", name, l, resp, None)
    /\ UNCHANGED <<poll, cmds, timers, hass_data>>

\* The handler is woken as first waiter of GW_LOCK and sends its request
SvcGwAcquired(name) ==
    /\ svc[name].pc = "gw_wait"
    /\ GwFirst(SvcTask(name))
    /\ gw_locked' = TRUE
    /\ gw_waiters' = Tail(gw_waiters)
    /\ svc' = [svc EXCEPT ![name].pc = "http"]
    /\ last' = SvcStep("gw_acquired", name, Head(svc[name].todo), None, None)
    /\ UNCHANGED <<data, poll, cmds, timers, hass_data>>

\* The service configure_passage_mode is called for entity_ids:
\* api.set_passage_mode is awaited for the first coordinator
ConfigurePassageMode(entity_ids, call) ==
    SvcLoopStart("configure_passage_mode", entity_ids, ConfigFromCall(call), call)

\* `if await ...set_passage_mode(...): coordinator.data.passage_mode_config
\* = config`, where TTLockApi.set_passage_mode returns like lock()
SetPassageModeResult(self_data, config, res) ==
    IF res = "True" THEN [self_data EXCEPT !.passage_mode_config = Some(config)]
    ELSE self_data

\* api.set_passage_mode ends with `resp`
ConfigurePassageModeDone(resp) ==
    \E name \in {"configure_passage_mode"} :
        /\ svc[name].pc = "http"
        /\ SvcLoopCallDone(name, resp,
               SetPassageModeResult(Val(data[Head(svc[name].todo)]), Val(svc[name].arg),
                                    ApiCommandResult(resp)))

\* handle_create_passcode, lines 124-139: the AddPasscodeConfig built from
\* the call data, the times (seconds since the epoch) as milliseconds
AddPasscodeConfigFromCall(call) ==
    [passcode |-> call.passcode, passcodeName |-> call.passcode_name,
     startDate |-> call.start_time * 1000, endDate |-> call.end_time * 1000]

\* The service create_passcode is called for entity_ids: api.add_passcode is
\* awaited for the first coordinator
CreatePasscode(entity_ids, call) ==
    SvcLoopStart("create_passcode", entity_ids, AddPasscodeConfigFromCall(call), call)

\* api.add_passcode ends with `resp`; what it returns is not looked at
CreatePasscodeDone(resp) ==
    \E name \in {"create_passcode"} :
        /\ svc[name].pc = "http"
        /\ SvcLoopCallDone(name, resp, Val(data[Head(svc[name].todo)]))

\* keyboardPwdType of the vendor: 2 is a permanent passcode, 3 a temporary
\* one (PasscodeType)
PasscodeType_permanent == 2
PasscodeType_temporary == 3

\* Passcode.parse_obj of one entry of lock/listKeyboardPwd; instants are
\* kept as milliseconds since the epoch
PasscodeParse(raw) ==
    [id |-> raw.keyboardPwdId, type |-> raw.keyboardPwdType,
     name |-> raw.keyboardPwdName, end_date |-> raw.endDate]

\* Passcode.expired, read when the clock shows `now`
PasscodeExpired(code, now) == code.type = PasscodeType_temporary /\ code.end_date < now

passcode_outdated_AnyType(passcode, now) == passcode.endDate < now

\* delete_outdated_pass_codes.passcode_outdated, when int(round(time.time()
\* * 1000)) is `now`
passcode_outdated(passcode, now) ==
    LET is_temporary == passcode.keyboardPwdType = 3
        is_outdated == passcode.endDate < now
    IN  is_temporary /\ is_outdated

\* The entries of `codes` from the first one that is in `expired`
FromFirstExpired(expired, codes) ==
    LET idx == {i \in 1..Len(codes) : codes[i] \in expired}
    IN  IF idx = {} THEN <<>> ELSE SubSeq(codes, MinOf(idx), Len(codes))

\* `for code in codes: if <expired>: await <delete>` resumed with `codes`
\* still to go through, GW_LOCK being `locked` with `waiters`: up to the
\* next await.  `expired` are the codes the test holds of and key[code] is
\* the id the delete is called with.  The delete is awaited for the first
\* expired code; without one the listing of the next coordinator is
\* awaited, or the loops end (pc "done").
DeleteLoop(name, expired, key, task, codes, locked, waiters) ==
    LET rest == FromFirstExpired(expired, codes)
        gw == GwEnter(locked, waiters, SvcTask(name))
    IN  IF rest # <<>>
        THEN [task |-> [task EXCEPT !.pc = gw.pc, !.codes = rest,
                                    !.calls = Append(@, [lock |-> Head(task.todo),
                                                         id |-> key[Head(rest)]])],
              locked |-> gw.locked, waiters |-> gw.waiters]
        ELSE [task |-> [task EXCEPT !.pc = IF Tail(task.todo) # <<>> THEN "list" ELSE "done",
                                    !.todo = Tail(@), !.codes = <<>>],
              locked |-> locked, waiters |-> waiters]

\* What the handler or API method that ran as `task` hands back, with the
\* calls it made and the listings it got (history)
SvcOutcome(task, value) ==
    Some([value |-> value, calls |-> task.calls, listed |-> task.listed, now |-> Val(task.arg)])

\* The step that takes the handler `name` to st.task
SvcAdvance(name, st, op, l, input, value) ==
    /\ svc' = [svc EXCEPT ![name] = IF st.task.pc = "done" THEN SvcIdle ELSE st.task]
    /\ gw_locked' = st.locked
    /\ gw_waiters' = st.waiters
    /\ last' = IF st.task.pc = "done"
               THEN SvcStep("svc_returned", name, l, input, SvcOutcome(st.task, value))
               ELSE SvcStep(op, name, l, input, None)

\* The listing or the delete awaited by `name` raised: the exception leaves
\* the handler
SvcCallRaised(name, pc, resp) ==
    /\ svc[name].pc = pc
    /\ ParseRespRaises(resp)
    /\ svc' = [svc EXCEPT ![name] = SvcIdle]
    /\ gw_locked' = IF pc = "http" THEN FALSE ELSE gw_locked
    /\ last' = SvcStep("svc_raised", name, Head(svc[name].todo), resp, None)
    /\ UNCHANGED <<data, poll, cmds, timers, gw_waiters, hass_data>>

\* code.id of a Passcode
PasscodeId(code) == code.id

\* The service cleanup_passcodes is called for entity_ids when the clock
\* shows `now`: api.list_passcodes is awaited for the first coordinator
CleanupPasscodes(entity_ids, now) ==
    \E name \in {"cleanup_passcodes"} :
        /\ svc[name].pc = "idle"
        /\ LET todo == GetCoordinators(entity_ids)
               task == [SvcIdle EXCEPT !.pc = "list", !.todo = todo, !.arg = Some(now)]
           IN  IF todo = <<>>
               THEN /\ last' = SvcStep("svc_returned", name, 0, entity_ids,
                                       SvcOutcome(task, <<>>))
                    /\ UNCHANGED svc
               ELSE /\ svc' = [svc EXCEPT ![name] = task]
                    /\ last' = SvcStep("svc_start", name, Head(todo), entity_ids, None)
        /\ UNCHANGED <<data, poll, cmds, timers, gw_locked, gw_waiters, hass_data>>

\* The codes of `codes` that code.expired holds of when the clock shows
\* `now`, and code.id of each
ExpiredPasscodes(codes, now) ==
    {code \in {codes[i] : i \in 1..Len(codes)} : PasscodeExpired(code, now)}
PasscodeIds(codes) == [code \in {codes[i] : i \in 1..Len(codes)} |-> PasscodeId(code)]

\* api.list_passcodes returned the passcodes parsed from `listing`
CleanupListed(listing) ==
    \E name \in {"cleanup_passcodes"} :
        /\ svc[name].pc = "list"
        /\ LET l == Head(svc[name].todo)
               codes == [i \in 1..Len(listing) |-> PasscodeParse(listing[i])]
               task == [svc[name] EXCEPT !.listed = Append(@, [lock |-> l, codes |-> codes])]
           IN  \E st \in {DeleteLoop(name,
                                        ExpiredPasscodes(codes, Val(svc[name].arg)),
                                        PasscodeIds(codes), task,
                                        codes, gw_locked, gw_waiters)} :
                   SvcAdvance(name, st, "svc_listed", l, listing, st.task.removed)
        /\ UNCHANGED <<data, poll, cmds, timers, hass_data>>

\* api.list_passcodes raised
CleanupListFailed(resp) == SvcCallRaised("cleanup_passcodes", "list", resp)

CleanupDeleted_KeepsNoName(resp) ==
    \E name \in {"cleanup_passcodes"} :
        /\ svc[name].pc = "http"
        /\ ~ParseRespRaises(resp)
        /\ \E st \in {DeleteLoop(name,
                                        ExpiredPasscodes(Tail(svc[name].codes), Val(svc[name].arg)),
                                        PasscodeIds(Tail(svc[name].codes)), svc[name],
                                        Tail(svc[name].codes), FALSE, gw_waiters)} :
               SvcAdvance(name, st, "svc_call_ok", Head(svc[name].todo), resp, st.task.removed)
        /\ UNCHANGED <<data, poll, cmds, timers, hass_data>>

\* api.delete_passcode returned: GW_LOCK is released and the name of the
\* code is appended to `removed`
CleanupDeleted(resp) ==
    \E name \in {"cleanup_passcodes"} :
        /\ svc[name].pc = "http"
        /\ ~ParseRespRaises(resp)
        /\ LET l == Head(svc[name].todo)
               task == [svc[name] EXCEPT !.removed = Append(@, Head(svc[name].codes).name)]
           IN  \E st \in {DeleteLoop(name,
                                        ExpiredPasscodes(Tail(svc[name].codes), Val(svc[name].arg)),
                                        PasscodeIds(Tail(svc[name].codes)), task,
                                        Tail(svc[name].codes), FALSE, gw_waiters)} :
                   SvcAdvance(name, st, "svc_call_ok", l, resp, st.task.removed)
        /\ UNCHANGED <<data, poll, cmds, timers, hass_data>>

\* api.delete_passcode raised
CleanupDeleteFailed(resp) == SvcCallRaised("cleanup_passcodes", "http", resp)

\* passcode.get("keyboardPwdId") of an entry of the listing
KeyboardPwdId(passcode) == passcode.keyboardPwdId

\* The entries of `codes` that passcode_outdated holds of when the clock
\* shows `now`, and the keyboardPwdId of each
OutdatedPassCodes(codes, now) ==
    {passcode \in {codes[i] : i \in 1..Len(codes)} : passcode_outdated(passcode, now)}
KeyboardPwdIds(codes) ==
    [passcode \in {codes[i] : i \in 1..Len(codes)} |-> KeyboardPwdId(passcode)]

\* TTLockApi.delete_outdated_pass_codes(l) is called when the clock shows
\* `now`: the listing is awaited
DeleteOutdatedPassCodes(l, now) ==
    \E name \in {"delete_outdated_pass_codes"} :
        /\ svc[name].pc = "idle"
        /\ svc' = [svc EXCEPT ![name] =
                     [SvcIdle EXCEPT !.pc = "list", !.todo = <<l>>, !.arg = Some(now)]]
        /\ last' = SvcStep("svc_start", name, l, now, None)
        /\ UNCHANGED <<data, poll, cmds, timers, gw_locked, gw_waiters, hass_data>>

\* lock/listKeyboardPwd answered with res["list"] = listing
DeleteOutdatedListed(listing) ==
    \E name \in {"delete_outdated_pass_codes"} :
        /\ svc[name].pc = "list"
        /\ LET l == Head(svc[name].todo)
               task == [svc[name] EXCEPT !.listed = Append(@, [lock |-> l, codes |-> listing])]
           IN  \E st \in {DeleteLoop(name,
                                        OutdatedPassCodes(listing, Val(svc[name].arg)),
                                        KeyboardPwdIds(listing), task,
                                        listing, gw_locked, gw_waiters)} :
                   SvcAdvance(name, st, "svc_listed", l, listing, TRUE)
        /\ UNCHANGED <<data, poll, cmds, timers, hass_data>>

\* lock/listKeyboardPwd raised
DeleteOutdatedListFailed(resp) == SvcCallRaised("delete_outdated_pass_codes", "list", resp)

\* keyboardPwd/delete returned: GW_LOCK is released and the loop goes on
DeleteOutdatedDeleted(resp) ==
    \E name \in {"delete_outdated_pass_codes"} :
        /\ svc[name].pc = "http"
        /\ ~ParseRespRaises(resp)
        /\ \E st \in {DeleteLoop(name,
                                        OutdatedPassCodes(Tail(svc[name].codes), Val(svc[name].arg)),
                                        KeyboardPwdIds(Tail(svc[name].codes)), svc[name],
                                        Tail(svc[name].codes), FALSE, gw_waiters)} :
               SvcAdvance(name, st, "svc_call_ok", Head(svc[name].todo), resp, TRUE)
        /\ UNCHANGED <<data, poll, cmds, timers, hass_data>>

\* keyboardPwd/delete raised
DeleteOutdatedDeleteFailed(resp) == SvcCallRaised("delete_outdated_pass_codes", "http", resp)

----------------------------------------------------------------------------
(* Inputs: what the vendor API answers and what the webhook delivers       *)

\* Responses as _parse_resp sees them: HTTP status < 400 or not, and errcode
Responses == [status_ok : BOOLEAN, errcode : {0, 1}]
FailedResponses == {resp \in Responses : ParseRespRaises(resp)}

\* Lock.parse_obj of two lock/detail answers (tests/const.py LOCK_DETAILS and
\* a variant with every mutable attribute different and auto-lock off)
LockDetails ==
    { [name |-> "Front Door", mac |-> "16:72:4C:CC:01:C4", model |-> Some("SN9206_PV53"),
       battery_level |-> Some(90), hardwareRevision |-> Some("1.6"),
       firmwareRevision |-> Some("6.0.6.210622"), featureValue |-> Some(<<"F", "4">>),
       autoLockTime |-> 2],
      [name |-> "Back Door", mac |-> "16:72:4C:CC:01:C4", model |-> Some("SN9206_PV53"),
       battery_level |-> Some(40), hardwareRevision |-> Some("1.7"),
       firmwareRevision |-> Some("6.0.7.220101"), featureValue |-> Some(<<"0", "1">>),
       autoLockTime |-> -1] }

\* LockState.parse_obj of lock/queryOpenState answers
StateResponses == {[locked |-> Some(s)] : s \in {State_locked, State_unlocked, State_unknown}}

\* tests/const.py PASSAGE_MODE_6_TO_6_7_DAYS and PASSAGE_MODE_ALL_DAY_WEEKDAYS
PassageMode6To6 ==
    [autoUnlock |-> Some(OnOff_off), isAllDay |-> Some(OnOff_off), endDate |-> Some((6 + 12) * 60),
     weekDays |-> Some(1..7), passageMode |-> Some(OnOff_on), startDate |-> Some(6 * 60)]
PassageModeAllDayWeekdays ==
    [autoUnlock |-> Some(OnOff_on), isAllDay |-> Some(OnOff_on), endDate |-> None,
     weekDays |-> Some(1..5), passageMode |-> Some(OnOff_on), startDate |-> None]
PassageConfigs == {PassageMode6To6, PassageModeAllDayWeekdays}

\* Wednesday 10:00:00 (inside both windows) and Saturday 19:00:00 (outside both)
WedTenAm == 2 * 86400 + 10 * 3600
SatSevenPm == 5 * 86400 + 19 * 3600

\* Record types used by the events: unlock by app, lock by app, door sensor closed
EventCodes == {1, 11, 30}

\* Lock ids carried by events; lock 1 is always tracked
EventLockIds == {1, 2}

\* Transit offsets server_ts - lock_ts, in seconds
Offsets == {-1, 1, 2}

AllEvents ==
    { [id |-> id, battery_level |-> b, server_ts |-> t + o, lock_ts |-> t,
       event |-> c, user |-> u, success |-> ok] :
         id \in EventLockIds, b \in {None, Some(75)}, t \in {WedTenAm, SatSevenPm},
         o \in Offsets, c \in EventCodes, u \in {None, Some("alice")}, ok \in BOOLEAN }

\* The timestamps are read on the unlock path only (coordinator.py:173):
\* every other event is delivered with one pair of timestamps
Events ==
    {e \in AllEvents :
        \/ e.success /\ EventAction(e.event) = "unlock"
        \/ e.lock_ts = SatSevenPm /\ e.server_ts = SatSevenPm + 1}

\* The events delivered while polls and commands are in flight: for lock 1
\* one of each record type, successful, and a failed one; one for lock 2
RaceEvents ==
    {e \in Events :
        /\ e.battery_level = Some(75) /\ e.user = Some("alice")
        /\ e.lock_ts = SatSevenPm /\ e.server_ts = SatSevenPm + 1
        /\ (e.success \/ e.event = 1)
        /\ (e.id = 1 \/ (e.event = 11 /\ e.success))}

\* The lock/detail answer and passage mode answer of the polls that race
RaceDetails == {d \in LockDetails : d.autoLockTime > 0}
RaceConfigs == {PassageMode6To6}

\* Webhook records as the vendor posts them (the example in
\* handle_webhook): for the tracked lock 1 an unlock, a lock and a
\* record type the table does not have; a lock record for the tracked lock
\* 2, for the lock 3 of another account, and without lockId
RawRecords ==
    {raw \in
        { [lockId |-> id, lockMac |-> Some("16:72:4C:CC:01:C4"),
           electricQuantity |-> Some(75),
           serverDate |-> Some((SatSevenPm + 1) * 1000),
           lockDate |-> Some(SatSevenPm * 1000),
           recordType |-> Some(c), username |-> Some("alice"), success |-> Some(1)] :
             id \in {None, Some(1), Some(2), Some(3)}, c \in {1, 11, 99} } :
        raw.lockId = Some(1) \/ raw.recordType = Some(11)}

\* The deliveries: one record, or two records batched
Deliveries ==
    {<<raw>> : raw \in RawRecords} \cup {<<r1, r2>> : r1 \in RawRecords, r2 \in RawRecords}

\* One successful and one failed event of every record type of the table,
\* for lock 1
TableEvents ==
    { [id |-> 1, battery_level |-> Some(75), server_ts |-> SatSevenPm + 1,
       lock_ts |-> SatSevenPm, event |-> c, user |-> Some("alice"), success |-> ok] :
         c \in DOMAIN EVENTS, ok \in BOOLEAN }

\* Lock/detail answers with auto-lock off (-1 and 0) and on
QueryDetails ==
    LockDetails \cup {[d EXCEPT !.autoLockTime = 0] : d \in {x \in LockDetails : x.autoLockTime < 0}}

\* lock/getPassageModeConfig answers: every tri-state field with each of
\* its values or missing, the minutes null or given, the weekdays missing
\* or Monday to Friday
RawPassageConfigs ==
    [passageMode : {None, Some(OnOff_unknown), Some(OnOff_on), Some(OnOff_off)},
     isAllDay : {None, Some(OnOff_unknown), Some(OnOff_on), Some(OnOff_off)},
     autoUnlock : {Some(OnOff_unknown), Some(OnOff_on)},
     startDate : {None, Some(6 * 60)},
     endDate : {None, Some((6 + 12) * 60)},
     weekDays : {None, Some(1..5)}]

\* The instants the queries are asked about: Wednesday at the last second
\* before the window 06:00-18:00, at its first second, at its last second and
\* at the first second after it; and Saturday noon
QueryClocks ==
    { [wd |-> 3, h |-> 5, m |-> 59, sec |-> 59],
      [wd |-> 3, h |-> 6, m |-> 0, sec |-> 0],
      [wd |-> 3, h |-> 17, m |-> 59, sec |-> 59],
      [wd |-> 3, h |-> 18, m |-> 0, sec |-> 0],
      [wd |-> 6, h |-> 12, m |-> 0, sec |-> 0] }

\* lock/getPassageModeConfig answers of SpecMidnight, enabled on every day
\* and not all day: the window 22:00 to 06:00, the window 06:00 to 06:00,
\* and no minutes at all
MidnightConfigs ==
    { [autoUnlock |-> Some(OnOff_off), isAllDay |-> Some(OnOff_off),
       passageMode |-> Some(OnOff_on), weekDays |-> Some(1..7),
       startDate |-> w[1], endDate |-> w[2]] :
         w \in {<<Some(22 * 60), Some(6 * 60)>>, <<Some(6 * 60), Some(6 * 60)>>, <<None, None>>} }

\* The instants of SpecMidnight: on every day of the week, the first and
\* the last minute of the hours 0, 3, 6, 12, 22 and 23
MidnightClocks ==
    [wd : 1..7, h : {0, 3, 6, 12, 22, 23}, m : {0, 59}, sec : {0}]

\* The entities a service call names: those of lock 1, of locks 1 and 2, and
\* an entity of another integration
ServiceTargets == {<<1>>, <<1, 2>>, <<3>>}

\* Call data of configure_passage_mode: passage mode all day on every day
\* of the week, and passage mode switched off
ConfigCalls ==
    { [enabled |-> on, auto_unlock |-> FALSE, all_day |-> on,
       start_time |-> [hour |-> 0, minute |-> 0], end_time |-> [hour |-> 0, minute |-> 0],
       week_days |-> 1..7] : on \in BOOLEAN }

\* Call data of create_passcode (start and end in seconds since the epoch)
PasscodeCalls ==
    { [passcode |-> "1234", passcode_name |-> "Test User",
       start_time |-> 500000, end_time |-> 900000] }

\* The reading of the clock during the passcode calls, in milliseconds
NowMs == 700000000

\* Entries of lock/listKeyboardPwd: a permanent code (endDate 0, as in
\* tests/test_models.py), and temporary codes that ended a week ago, end
\* this very millisecond, and end in a week
RawPasscodes ==
    { [keyboardPwdId |-> 1, keyboardPwdType |-> 2, keyboardPwdName |-> "Person A", endDate |-> 0],
      [keyboardPwdId |-> 2, keyboardPwdType |-> 3, keyboardPwdName |-> "Person B",
       endDate |-> NowMs - 604800000],
      [keyboardPwdId |-> 3, keyboardPwdType |-> 3, keyboardPwdName |-> "Person C",
       endDate |-> NowMs],
      [keyboardPwdId |-> 4, keyboardPwdType |-> 3, keyboardPwdName |-> "Person D",
       endDate |-> NowMs + 604800000] }

\* The listings: no passcode, one, or two different ones
Listings ==
    {<<>>} \cup {<<a>> : a \in RawPasscodes}
           \cup {<<p[1], p[2]>> : p \in {x \in RawPasscodes \X RawPasscodes : x[1] # x[2]}}

\* The events of SpecRelock and SpecStale, for lock 1 on Saturday evening:
\* unlocks by alice with every transit offset, and (SpecRelock) locks that
\* name no user
UnlockEvents ==
    {e \in Events :
        /\ e.id = 1 /\ e.success /\ e.battery_level = Some(75) /\ e.lock_ts = SatSevenPm
        /\ WebhookEventState(e).locked = Some(State_unlocked) /\ e.user = Some("alice")}
RelockEvents ==
    UnlockEvents \cup
    {e \in Events :
        /\ e.id = 1 /\ e.success /\ e.battery_level = Some(75)
        /\ WebhookEventState(e).locked = Some(State_locked) /\ e.user = None}

\* The lock/detail answers of SpecSched: the autoLockTime of one second and
\* of two seconds
SchedDetails == {[d EXCEPT !.autoLockTime = t] : d \in RaceDetails, t \in {1, 2}}

\* The events of SpecStale: the unlocks that were one second in transit
StaleEvents == {e \in UnlockEvents : e.server_ts = e.lock_ts + 1}

\* The call data of SpecStale: passage mode is switched on
StaleCalls == {call \in ConfigCalls : call.enabled}

\* The lock/getPassageModeConfig answers of SpecStale: the window 06:00 to
\* 18:00, and passage mode all day on every day of the week
PassageModeAllWeek == [PassageModeAllDayWeekdays EXCEPT !.weekDays = Some(1..7)]
StaleConfigs == {PassageMode6To6, PassageModeAllWeek}

----------------------------------------------------------------------------
(* __init__.py: async_setup_entry and async_unload_entry                   *)

\* The setups of the entry that are followed: the first one and a reload
Setups == {0, 1}

\* The coordinators that the latest async_setup_entry created
LatestCoordinators == {c \in Locks : \A d \in Locks : SetupOf(d) <= SetupOf(c)}

\* async_unload_entry of a loaded entry whose platforms unload: the entry is
\* popped from hass.data.  Nothing disconnects the coordinators from
\* SIGNAL_NEW_DATA (__init__ drops what async_dispatcher_connect returns),
\* cancels their _auto_locked tasks or unregisters the webhook
UnloadEntry ==
    /\ hass_data # None
    /\ Val(hass_data).locks # None
    /\ hass_data' = None
    /\ last' = [NoStep EXCEPT !.op = "unload_entry"]
    /\ UNCHANGED <<data, poll, cmds, timers, svc, gw_locked, gw_waiters>>

\* async_setup_entry of an unloaded entry up to the first refreshes: the
\* entry gets its hass.data record, and a new coordinator per lock id is
\* created and connected to SIGNAL_NEW_DATA
SetupEntry ==
    /\ hass_data = None
    /\ LET n == 1 + SetupOf(MinOf(LatestCoordinators))
           ids == {LockIdOf(c) : c \in Locks}
           new == {i + n * Cardinality(AccountLocks) : i \in ids}
           slots == DOMAIN timers[MinOf(Locks)]
       IN  /\ n \in Setups
           /\ data' = [c \in Locks \cup new |-> IF c \in new THEN None ELSE data[c]]
           /\ poll' = [c \in Locks \cup new |-> IF c \in new THEN PollIdle ELSE poll[c]]
           /\ cmds' = [c \in Locks \cup new |->
                         IF c \in new THEN [i \in CmdSlots |-> CmdIdle] ELSE cmds[c]]
           /\ timers' = [c \in Locks \cup new |->
                           IF c \in new THEN [s \in slots |-> None] ELSE timers[c]]
    /\ hass_data' = Some([locks |-> None])
    /\ last' = [NoStep EXCEPT !.op = "setup_entry"]
    /\ UNCHANGED <<svc, gw_locked, gw_waiters>>

\* async_setup_entry after the first refreshes of its coordinators have
\* succeeded: they are stored as TT_LOCKS
SetupEntryDone ==
    /\ hass_data # None
    /\ Val(hass_data).locks = None
    /\ \A c \in LatestCoordinators : data[c] # None
    /\ hass_data' = Some([locks |-> Some(LatestCoordinators)])
    /\ last' = [NoStep EXCEPT !.op = "setup_entry_done"]
    /\ UNCHANGED <<data, poll, cmds, timers, svc, gw_locked, gw_waiters>>

----------------------------------------------------------------------------
(* Specifications                                                          *)

\* The coordinators of the locks L right after LockUpdateCoordinator.__init__
InitSlots(L, slots) ==
    /\ data = [l \in L |-> None]
    /\ poll = [l \in L |-> PollIdle]
    /\ cmds = [l \in L |-> [i \in CmdSlots |-> CmdIdle]]
    /\ timers = [l \in L |-> [s \in slots |-> None]]
    /\ svc = [name \in ServiceNames |-> SvcIdle]
    /\ gw_locked = FALSE
    /\ gw_waiters = <<>>
    /\ hass_data = Some([locks |-> None])
    /\ last = NoStep

InitLocks(L) == InitSlots(L, TimerSlots)

Init == InitLocks({1})

\* Spec: one lock; polls, commands, webhook events and timers interleave
\* freely at every suspension point
Next ==
    \/ \E e \in RaceEvents : Webhook(e)
    \/ \E l \in Locks, s \in TimerSlots : TimerFire(l, s)
    \/ Tick
    \/ \E l \in Locks : PollStart(l)
    \/ \E l \in Locks, resp \in FailedResponses : PollDetailsFailed(l, resp)
    \/ \E l \in Locks, details \in RaceDetails : PollGotDetails(l, details)
    \/ \E l \in Locks : PollGwAcquired(l)
    \/ \E l \in Locks, resp \in Responses, state \in StateResponses : PollGotState(l, resp, state)
    \/ \E l \in Locks, config \in RaceConfigs : PollGotPassage(l, config)
    \/ \E l \in Locks, resp \in FailedResponses : PollPassageFailed(l, resp)
    \/ \E l \in Locks, kind \in {"lock", "unlock"} : CmdStart(l, kind)
    \/ \E l \in Locks, i \in CmdSlots : CmdGwAcquired(l, i)
    \/ \E l \in Locks, i \in CmdSlots, resp \in Responses : CmdDone(l, i, resp)

Spec == Init /\ [][Next]_vars

\* The first refresh of a coordinator (async_config_entry_first_refresh,
\* retried until it succeeds)
FirstRefresh(l) == data[l] = None /\ PollStart(l)

\* SpecHook: one lock; after the first refresh, webhook events of every kind
\* and the timers they schedule
NextHook ==
    \/ \E e \in Events : Webhook(e)
    \/ \E l \in Locks, s \in TimerSlots : TimerFire(l, s)
    \/ Tick
    \/ \E l \in Locks : FirstRefresh(l)
    \/ \E l \in Locks, resp \in FailedResponses : PollDetailsFailed(l, resp)
    \/ \E l \in Locks, details \in LockDetails : PollGotDetails(l, details)
    \/ \E l \in Locks, resp \in Responses, state \in StateResponses : PollGotState(l, resp, state)
    \/ \E l \in Locks, config \in PassageConfigs : PollGotPassage(l, config)
    \/ \E l \in Locks, resp \in FailedResponses : PollPassageFailed(l, resp)

SpecHook == Init /\ [][NextHook]_vars

\* SpecTwo: two locks of one account; their first refreshes, the
\* deliveries to the webhook and the timers they schedule
InitTwo == InitLocks({1, 2})

NextTwo ==
    \/ \E records \in Deliveries : HandleWebhook(records)
    \/ \E l \in Locks, s \in TimerSlots : TimerFire(l, s)
    \/ Tick
    \/ \E l \in Locks : FirstRefresh(l)
    \/ \E l \in Locks, resp \in FailedResponses : PollDetailsFailed(l, resp)
    \/ \E l \in Locks, details \in RaceDetails : PollGotDetails(l, details)
    \/ \E l \in Locks : PollGwAcquired(l)
    \/ \E l \in Locks, resp \in Responses, state \in StateResponses : PollGotState(l, resp, state)
    \/ \E l \in Locks, config \in RaceConfigs : PollGotPassage(l, config)
    \/ \E l \in Locks, resp \in FailedResponses : PollPassageFailed(l, resp)

SpecTwo == InitTwo /\ [][NextTwo]_vars

\* The event delivered between and during the polls of SpecPoll: a
\* successful lock event for lock 1, which creates no task
PollEvents == {e \in RaceEvents : e.id = 1 /\ WebhookEventState(e).locked = Some(State_locked)}

\* SpecPoll: one lock; poll cycles over every lock details, state and
\* passage mode answer, one after the other, and lock events in between
NextPoll ==
    \/ \E e \in PollEvents : Webhook(e)
    \/ \E l \in Locks : PollStart(l)
    \/ \E l \in Locks, resp \in FailedResponses : PollDetailsFailed(l, resp)
    \/ \E l \in Locks, details \in LockDetails : PollGotDetails(l, details)
    \/ \E l \in Locks, resp \in Responses, state \in StateResponses : PollGotState(l, resp, state)
    \/ \E l \in Locks, res \in PassageConfigs : PollGotPassage(l, res)
    \/ \E l \in Locks, resp \in FailedResponses : PollPassageFailed(l, resp)

SpecPoll == Init /\ [][NextPoll]_vars

\* SpecEvents: one lock with auto-lock off; after the first refresh, events
\* of every record type
NextEvents ==
    \/ \E e \in TableEvents : Webhook(e)
    \/ \E l \in Locks : FirstRefresh(l)
    \/ \E l \in Locks, resp \in FailedResponses : PollDetailsFailed(l, resp)
    \/ \E l \in Locks, details \in LockDetails \ RaceDetails : PollGotDetails(l, details)
    \/ \E l \in Locks, resp \in Responses, state \in StateResponses : PollGotState(l, resp, state)
    \/ \E l \in Locks, res \in RaceConfigs : PollGotPassage(l, res)
    \/ \E l \in Locks, resp \in FailedResponses : PollPassageFailed(l, resp)

SpecEvents == Init /\ [][NextEvents]_vars

\* SpecQuery: one lock; its first refresh with every passage mode answer,
\* and the queries of the aggregate at the instants of QueryClocks
NextQuery ==
    \/ \E l \in Locks, clock \in QueryClocks : QueryPassageModeActive(l, clock)
    \/ \E l \in Locks, clock \in QueryClocks : QueryAutoLockDelay(l, clock)
    \/ \E l \in Locks : FirstRefresh(l)
    \/ \E l \in Locks, resp \in FailedResponses : PollDetailsFailed(l, resp)
    \/ \E l \in Locks, details \in QueryDetails : PollGotDetails(l, details)
    \/ \E l \in Locks, resp \in Responses, state \in StateResponses : PollGotState(l, resp, state)
    \/ \E l \in Locks, res \in RawPassageConfigs : PollGotPassage(l, res)
    \/ \E l \in Locks, resp \in FailedResponses : PollPassageFailed(l, resp)

SpecQuery == Init /\ [][NextQuery]_vars

\* The listing with one expired passcode
OneExpired == {li \in Listings : Len(li) = 1 /\ passcode_outdated(li[1], NowMs)}

\* What the gateway-routed calls are answered in SpecGw: success, or a
\* vendor error
GwResponses == {resp \in Responses : resp.status_ok}

\* SpecGw: two locks; the first refresh of each, a lock() call for lock 1,
\* the service calls for both locks and delete_outdated_pass_codes for lock
\* 2 contend for GW_LOCK
NextGw ==
    \/ \E l \in Locks : FirstRefresh(l)
    \/ \E l \in Locks, details \in RaceDetails : PollGotDetails(l, details)
    \/ \E l \in Locks : PollGwAcquired(l)
    \/ \E l \in Locks, resp \in GwResponses, state \in {[locked |-> Some(State_locked)]} :
          PollGotState(l, resp, state)
    \/ \E l \in Locks, config \in RaceConfigs : PollGotPassage(l, config)
    \/ \E l \in {1}, kind \in {"lock"} : CmdStart(l, kind)
    \/ \E l \in Locks, i \in CmdSlots : CmdGwAcquired(l, i)
    \/ \E l \in Locks, i \in CmdSlots, resp \in GwResponses : CmdDone(l, i, resp)
    \/ \E name \in ServiceNames : SvcGwAcquired(name)
    \/ \E ids \in {<<1, 2>>}, call \in {c \in ConfigCalls : c.enabled} :
          ConfigurePassageMode(ids, call)
    \/ \E resp \in GwResponses : ConfigurePassageModeDone(resp)
    \/ \E ids \in {<<1, 2>>}, call \in PasscodeCalls : CreatePasscode(ids, call)
    \/ \E resp \in GwResponses : CreatePasscodeDone(resp)
    \/ \E l \in {2} : DeleteOutdatedPassCodes(l, NowMs)
    \/ \E listing \in OneExpired : DeleteOutdatedListed(listing)
    \/ \E resp \in GwResponses : DeleteOutdatedDeleted(resp)
    \/ \E resp \in GwResponses : DeleteOutdatedDeleteFailed(resp)

SpecGw == InitTwo /\ [][NextGw]_vars

\* SpecGwFair: two locks; the first refresh of each, lock() calls for lock
\* 1 and configure_passage_mode calls for both locks contend for GW_LOCK,
\* where every request sent is answered (or fails) and the event loop runs
\* every task that was woken
GwCalls == {call \in ConfigCalls : call.enabled /\ call.all_day}
NextGwFair ==
    \/ \E l \in Locks : FirstRefresh(l)
    \/ \E l \in Locks, details \in RaceDetails : PollGotDetails(l, details)
    \/ \E l \in Locks : PollGwAcquired(l)
    \/ \E l \in Locks, resp \in GwResponses, state \in {[locked |-> Some(State_locked)]} :
          PollGotState(l, resp, state)
    \/ \E l \in Locks, config \in RaceConfigs : PollGotPassage(l, config)
    \/ \E l \in {1}, kind \in {"lock"} : CmdStart(l, kind)
    \/ \E l \in Locks, i \in CmdSlots : CmdGwAcquired(l, i)
    \/ \E l \in Locks, i \in CmdSlots, resp \in GwResponses : CmdDone(l, i, resp)
    \/ SvcGwAcquired("configure_passage_mode")
    \/ \E ids \in {<<1, 2>>}, call \in GwCalls : ConfigurePassageMode(ids, call)
    \/ \E resp \in GwResponses : ConfigurePassageModeDone(resp)

GwFairness ==
    /\ \A l \in {1, 2} :
          /\ WF_vars(PollGwAcquired(l))
          /\ WF_vars(\E resp \in GwResponses, state \in {[locked |-> Some(State_locked)]} :
                        PollGotState(l, resp, state))
    /\ \A i \in CmdSlots :
          /\ WF_vars(CmdGwAcquired(1, i))
          /\ WF_vars(\E resp \in GwResponses : CmdDone(1, i, resp))
    /\ WF_vars(SvcGwAcquired("configure_passage_mode"))
    /\ WF_vars(\E resp \in GwResponses : ConfigurePassageModeDone(resp))

SpecGwFair == InitTwo /\ [][NextGwFair]_vars /\ GwFairness

\* The scheduling of the tasks: time passes, and a task whose sleep is over
\* runs
TimerFairness == WF_vars(Tick) /\ \A s \in TimerSlots : WF_vars(TimerFire(1, s))

\* SpecRelock: one lock; after the first refresh, unlock and lock events,
\* lock() and unlock() calls one at a time, and the timers
NextRelock ==
    \/ \E e \in RelockEvents : Webhook(e)
    \/ \E l \in Locks, s \in TimerSlots : TimerFire(l, s)
    \/ Tick
    \/ \E l \in Locks : FirstRefresh(l)
    \/ \E l \in Locks, details \in RaceDetails : PollGotDetails(l, details)
    \/ \E l \in Locks, resp \in Responses, state \in StateResponses :
          PollGotState(l, resp, state)
    \/ \E l \in Locks, config \in RaceConfigs : PollGotPassage(l, config)
    \/ \E l \in Locks, kind \in {"lock", "unlock"} : InFlight(l) = {} /\ CmdStart(l, kind)
    \/ \E l \in Locks, i \in CmdSlots, resp \in Responses : CmdDone(l, i, resp)

SpecRelock == Init /\ [][NextRelock]_vars /\ TimerFairness

\* SpecSched: one lock; refreshes that set the auto-lock delay, unlock
\* events with every transit offset, and the timers
NextSched ==
    \/ \E e \in UnlockEvents : Webhook(e)
    \/ \E l \in Locks, s \in TimerSlots : TimerFire(l, s)
    \/ Tick
    \/ \E l \in Locks : PollStart(l)
    \/ \E l \in Locks, details \in SchedDetails : PollGotDetails(l, details)
    \/ \E l \in Locks, resp \in GwResponses, state \in {[locked |-> Some(State_locked)]} :
          PollGotState(l, resp, state)
    \/ \E l \in Locks, config \in RaceConfigs : PollGotPassage(l, config)

SpecSched == Init /\ [][NextSched]_vars

\* SpecOverlap: one lock with room for one more pending task; after the
\* first refresh, unlock and lock events and the timers
OverlapSlots == 1..(MaxTimers + 1)
InitOverlap == InitSlots({1}, OverlapSlots)
NextOverlap ==
    \/ \E e \in RelockEvents : Webhook(e)
    \/ \E l \in Locks, s \in OverlapSlots : TimerFire(l, s)
    \/ Tick
    \/ \E l \in Locks : FirstRefresh(l)
    \/ \E l \in Locks, details \in RaceDetails : PollGotDetails(l, details)
    \/ \E l \in Locks, resp \in GwResponses, state \in {[locked |-> Some(State_locked)]} :
          PollGotState(l, resp, state)
    \/ \E l \in Locks, config \in RaceConfigs : PollGotPassage(l, config)

SpecOverlap ==
    /\ InitOverlap /\ [][NextOverlap]_vars
    /\ WF_vars(Tick) /\ \A s \in OverlapSlots : WF_vars(TimerFire(1, s))

\* SpecMidnight: one lock; its first refresh with a passage mode window
\* that does not end after it starts, and the queries of the aggregate
NextMidnight ==
    \/ \E l \in Locks, clock \in MidnightClocks : QueryPassageModeActive(l, clock)
    \/ \E l \in Locks, clock \in MidnightClocks : QueryAutoLockDelay(l, clock)
    \/ \E l \in Locks : FirstRefresh(l)
    \/ \E l \in Locks, details \in QueryDetails : PollGotDetails(l, details)
    \/ \E l \in Locks, resp \in GwResponses, state \in {[locked |-> Some(State_locked)]} :
          PollGotState(l, resp, state)
    \/ \E l \in Locks, res \in MidnightConfigs : PollGotPassage(l, res)

SpecMidnight == Init /\ [][NextMidnight]_vars

\* SpecSensor: one lock; its refreshes with every passage mode answer of the
\* tests, and the updates of the passage mode sensor at the instants of
\* QueryClocks
NextSensor ==
    \/ \E l \in Locks, clock \in QueryClocks : PassageModeSensorUpdate(l, clock)
    \/ \E l \in Locks : PollStart(l)
    \/ \E l \in Locks, details \in LockDetails : PollGotDetails(l, details)
    \/ \E l \in Locks, resp \in GwResponses, state \in StateResponses :
          PollGotState(l, resp, state)
    \/ \E l \in Locks, res \in PassageConfigs : PollGotPassage(l, res)

SpecSensor == Init /\ [][NextSensor]_vars

\* SpecReload: one lock; the entry is set up, unloaded and set up again,
\* with the first refreshes of its coordinators, unlock events and the timers
NextReload ==
    \/ \E e \in StaleEvents : Webhook(e)
    \/ \E l \in Locks, s \in TimerSlots : TimerFire(l, s)
    \/ Tick
    \/ \E l \in Locks : FirstRefresh(l)
    \/ \E l \in Locks, details \in RaceDetails : PollGotDetails(l, details)
    \/ \E l \in Locks, resp \in GwResponses, state \in {[locked |-> Some(State_locked)]} :
          PollGotState(l, resp, state)
    \/ \E l \in Locks, config \in RaceConfigs : PollGotPassage(l, config)
    \/ SetupEntryDone
    \/ UnloadEntry
    \/ SetupEntry

SpecReload == Init /\ [][NextReload]_vars

\* SpecStale: one lock; polls whose answers switch auto-lock off or passage
\* mode on, configure_passage_mode calls, unlock events and the timers
NextStale ==
    \/ \E e \in StaleEvents : Webhook(e)
    \/ \E l \in Locks, s \in TimerSlots : TimerFire(l, s)
    \/ Tick
    \/ \E l \in Locks : PollStart(l)
    \/ \E l \in Locks, details \in LockDetails : PollGotDetails(l, details)
    \/ \E l \in Locks, resp \in GwResponses, state \in {[locked |-> Some(State_locked)]} :
          PollGotState(l, resp, state)
    \/ \E l \in Locks, config \in StaleConfigs : PollGotPassage(l, config)
    \/ \E l \in Locks : PollGwAcquired(l)
    \/ \E ids \in {<<1>>}, call \in StaleCalls : ConfigurePassageMode(ids, call)
    \/ SvcGwAcquired("configure_passage_mode")
    \/ \E resp \in GwResponses : ConfigurePassageModeDone(resp)

SpecStale == Init /\ [][NextStale]_vars /\ TimerFairness

\* SpecCodes: two locks; their first refreshes, cleanup_passcodes calls and
\* delete_outdated_pass_codes calls over every listing
NextCodes ==
    \/ \E l \in Locks : FirstRefresh(l)
    \/ \E l \in Locks, details \in RaceDetails : PollGotDetails(l, details)
    \/ \E l \in Locks : PollGwAcquired(l)
    \/ \E l \in Locks, resp \in GwResponses, state \in {[locked |-> Some(State_locked)]} :
          PollGotState(l, resp, state)
    \/ \E l \in Locks, config \in RaceConfigs : PollGotPassage(l, config)
    \/ \E name \in ServiceNames : SvcGwAcquired(name)
    \/ \E ids \in ServiceTargets : CleanupPasscodes(ids, NowMs)
    \/ \E listing \in Listings : CleanupListed(listing)
    \/ \E resp \in GwResponses : CleanupListFailed(resp)
    \/ \E resp \in GwResponses : CleanupDeleted(resp)
    \/ \E resp \in GwResponses : CleanupDeleteFailed(resp)
    \/ \E l \in Locks : DeleteOutdatedPassCodes(l, NowMs)
    \/ \E listing \in Listings : DeleteOutdatedListed(listing)
    \/ \E resp \in GwResponses : DeleteOutdatedListFailed(resp)
    \/ \E resp \in GwResponses : DeleteOutdatedDeleted(resp)
    \/ \E resp \in GwResponses : DeleteOutdatedDeleteFailed(resp)

SpecCodes == InitTwo /\ [][NextCodes]_vars

----------------------------------------------------------------------------
(* Claims                                                                  *)

\* The aggregate of lock l exists
Tracked(l) == l \in Locks /\ data[l] # None

\* C1: for every lock, whenever no lock()/unlock() command of that lock is
\* in flight, action_pending is false.
C1_NoCommandNoPending ==
    \A l \in Locks : (Tracked(l) /\ InFlight(l) = {}) => ~Val(data[l]).action_pending

\* C2: a poll whose copy of the aggregate was taken before a webhook event
\* with a resulting state was applied does not change locked, last_user or
\* last_reason when its result is installed.
C2_PollKeepsPushedState ==
    [][\A l \in Locks :
         (poll[l].pc = "get_passage" /\ poll[l].pushed
            /\ last'.op = "poll_done" /\ last'.lock = l)
         => /\ Val(data'[l]).locked = Val(data[l]).locked
            /\ Val(data'[l]).last_user = Val(data[l]).last_user
            /\ Val(data'[l]).last_reason = Val(data[l]).last_reason]_vars

\* A lock()/unlock() command of lock l has just finished
CmdFinished(l) == last.lock = l /\ last.op \in {"cmd_ok", "cmd_false", "cmd_raised"}

\* C3: when a lock()/unlock() command finishes, however its remote call
\* ended, action_pending is false; and action_pending is true as long as the
\* remote call of a command is awaited.
C3_PendingWhileAwaited ==
    \A l \in Locks :
        /\ (Tracked(l) /\ CmdFinished(l)) => ~Val(data[l]).action_pending
        /\ (Tracked(l) /\ InFlight(l) # {}) => Val(data[l]).action_pending

\* C4: once `locked` of a lock is known it never becomes unknown again.
C4_LockedStaysKnown ==
    [][\A l \in Locks :
         (Tracked(l) /\ Val(data[l]).locked # None) => Val(data'[l]).locked # None]_vars

\* The step is the delivery of an event for lock l, whose aggregate exists
HookStep(l) == Tracked(l) /\ last'.op = "webhook" /\ last'.lock = l

\* The event delivered by the step
StepEvent == Val(last'.ev)

\* The step leaves locked, last_user and last_reason of lock l as they were
SameStateAndActor(l) ==
    \/ data[l] = None /\ data'[l] = None
    \/ /\ data[l] # None /\ data'[l] # None
       /\ Val(data'[l]).locked = Val(data[l]).locked
       /\ Val(data'[l]).last_user = Val(data[l]).last_user
       /\ Val(data'[l]).last_reason = Val(data[l]).last_reason

\* The step creates no _auto_locked task and does not call _handle_auto_lock
NothingScheduled == timers' = timers /\ last'.calls = <<>> /\ last'.slot = 0

\* The last step delivered event e to lock l, whose aggregate exists
Hooked(l) == Tracked(l) /\ last.op = "webhook" /\ last.lock = l

\* C5: processing a webhook event with success = false changes locked,
\* last_user and last_reason of no aggregate and schedules no auto-lock timer.
C5_FailedEventFrame ==
    [][(last'.op = "webhook" /\ ~StepEvent.success)
       => (\A l \in Locks : SameStateAndActor(l)) /\ NothingScheduled]_vars

C5_Witness ==
    \E l \in Locks :
        /\ Hooked(l) /\ ~Val(last.ev).success
        /\ EventAction(Val(last.ev).event) = "unlock"
        /\ auto_lock_delay(Val(data[l]), Val(last.ev).lock_ts) # None
        /\ Val(data[l]).locked = Some(TRUE)

\* C6 as claimed: a webhook event with success = false that carries a
\* battery level sets the aggregate's battery_level to that level.
C6_FailedEventSetsBattery ==
    [][\A l \in Locks :
         (HookStep(l) /\ ~StepEvent.success /\ StepEvent.battery_level # None)
         => Val(data'[l]).battery_level = StepEvent.battery_level]_vars

\* C6 as amended: a webhook event with success = false leaves the aggregate's
\* battery_level as it was, also when it carries a battery level.
C6_FailedEventKeepsBattery ==
    [][\A l \in Locks :
         (HookStep(l) /\ ~StepEvent.success /\ StepEvent.battery_level # None)
         => Val(data'[l]).battery_level = Val(data[l]).battery_level]_vars

C6_Witness ==
    \E l \in Locks :
        /\ Hooked(l) /\ ~Val(last.ev).success
        /\ Val(last.ev).battery_level # None
        /\ Val(data[l]).battery_level # Val(last.ev).battery_level

\* C7 as claimed: a successful webhook event whose resulting state is none
\* leaves locked unchanged and sets last_user and last_reason to the event's
\* actor and description.
C7_UnknownEventSetsActor ==
    [][\A l \in Locks :
         (HookStep(l) /\ StepEvent.success /\ WebhookEventState(StepEvent).locked = None)
         => /\ Val(data'[l]).locked = Val(data[l]).locked
            /\ Val(data'[l]).last_user = StepEvent.user
            /\ Val(data'[l]).last_reason = Some(EventDescriptionOf(StepEvent.event))]_vars

\* C7 as amended: a successful webhook event whose resulting state is none
\* leaves locked, last_user and last_reason unchanged.
C7_UnknownEventKeepsActor ==
    [][\A l \in Locks :
         (HookStep(l) /\ StepEvent.success /\ WebhookEventState(StepEvent).locked = None)
         => SameStateAndActor(l)]_vars

C7_Witness ==
    \E l \in Locks :
        /\ Hooked(l) /\ Val(last.ev).success
        /\ WebhookEventState(Val(last.ev)).locked = None
        /\ Val(data[l]).last_user # Val(last.ev).user
        /\ Val(data[l]).last_reason # Some(EventDescriptionOf(Val(last.ev).event))

\* C8: a successful webhook event whose action is lock sets the matching
\* aggregate to locked = true, last_user = the event's actor, last_reason =
\* the event's description, whatever locked was, and schedules no timer.
C8_LockEvent ==
    [][\A l \in Locks :
         (HookStep(l) /\ StepEvent.success /\ EventAction(StepEvent.event) = "lock")
         => /\ Val(data'[l]).locked = Some(TRUE)
            /\ Val(data'[l]).last_user = StepEvent.user
            /\ Val(data'[l]).last_reason = Some(EventDescriptionOf(StepEvent.event))
            /\ NothingScheduled]_vars

C8_Witness ==
    \E l \in Locks :
        /\ Hooked(l) /\ Val(last.ev).success
        /\ EventAction(Val(last.ev).event) = "lock"
        /\ Val(data[l]).locked = Some(TRUE)
        /\ Val(data[l]).last_user = Some("alice")
        /\ Val(data[l]).auto_lock_seconds > 0

\* C9: a successful webhook event whose action is unlock sets the matching
\* aggregate to locked = false, last_user = the event's actor, last_reason =
\* the event's description and calls _handle_auto_lock exactly once, with the
\* event's device and server timestamps; when auto_lock_seconds <= 0 no timer
\* is created.
C9_UnlockEvent ==
    [][\A l \in Locks :
         (HookStep(l) /\ StepEvent.success /\ EventAction(StepEvent.event) = "unlock")
         => /\ Val(data'[l]).locked = Some(FALSE)
            /\ Val(data'[l]).last_user = StepEvent.user
            /\ Val(data'[l]).last_reason = Some(EventDescriptionOf(StepEvent.event))
            /\ last'.calls = <<[lock |-> l, lock_ts |-> StepEvent.lock_ts,
                                server_ts |-> StepEvent.server_ts]>>
            /\ (Val(data[l]).auto_lock_seconds <= 0
                  => timers' = timers /\ last'.slot = 0)]_vars

C9_Witness ==
    \E l \in Locks :
        /\ Hooked(l) /\ Val(last.ev).success
        /\ EventAction(Val(last.ev).event) = "unlock"
        /\ Val(data[l]).auto_lock_seconds <= 0
        /\ Val(data[l]).locked = Some(FALSE)
        /\ Len(last.calls) = 1
        /\ \A s \in TimerSlots : timers[l][s] = None

\* The events delivered to the tracked lock; each carries a battery level
LiveEvents == {e \in Events : e.id = 1 /\ e.battery_level # None}

NextLive ==
    \/ \E e \in LiveEvents : Webhook(e)
    \/ \E l \in Locks, s \in TimerSlots : TimerFire(l, s)
    \/ Tick
    \/ \E l \in Locks : FirstRefresh(l)
    \/ \E l \in Locks, resp \in FailedResponses : PollDetailsFailed(l, resp)
    \/ \E l \in Locks, details \in LockDetails : PollGotDetails(l, details)
    \/ \E l \in Locks, resp \in Responses, state \in StateResponses : PollGotState(l, resp, state)
    \/ \E l \in Locks, config \in PassageConfigs : PollGotPassage(l, config)
    \/ \E l \in Locks, resp \in FailedResponses : PollPassageFailed(l, resp)

\* SpecLive: the first refresh, the events of the tracked lock and their
\* timers, where time passes and the event loop runs every _auto_locked task
\* whose sleep is over
SpecLive ==
    /\ Init /\ [][NextLive]_vars
    /\ WF_vars(Tick)
    /\ \A s \in TimerSlots : WF_vars(TimerFire(1, s))

\* C10: a successful unlock event applied while auto_lock_seconds > 0 and
\* passage mode is inactive at its device timestamp leaves locked = false and
\* creates a timer; the timer eventually fires; and when nothing else was
\* applied in between, after it fired locked = true, last_reason = "Auto Lock"
\* and last_user is the actor of the unlock event.
C10_AutoLockAfterUnlock ==
    /\ [][\A l \in Locks :
            (/\ HookStep(l) /\ StepEvent.success
             /\ EventAction(StepEvent.event) = "unlock"
             /\ auto_lock_delay(Val(data[l]), StepEvent.lock_ts) # None)
            => /\ Val(data'[l]).locked = Some(FALSE)
               /\ last'.slot \in TimerSlots
               /\ timers[l][last'.slot] = None
               /\ timers'[l][last'.slot] # None]_vars
    /\ [][\A l \in Locks :
            (last'.op = "timer" /\ last'.lock = l /\ last'.ev # None)
            => /\ Val(data'[l]).locked = Some(TRUE)
               /\ Val(data'[l]).last_reason = Some("Auto Lock")
               /\ Val(data'[l]).last_user = Val(last'.ev).user
               /\ timers'[l][last'.slot] = None]_vars
    /\ \A s \in TimerSlots :
          (last.op = "webhook" /\ last.lock = 1 /\ last.slot = s) ~> (timers[1][s] = None)

C10_Witness ==
    /\ Tracked(1) /\ last.op = "timer" /\ last.lock = 1 /\ last.ev # None
    /\ Val(last.ev).user = Some("alice")
    /\ Val(data[1]).locked = Some(TRUE)
    /\ Val(data[1]).last_reason = Some("Auto Lock")
    /\ Val(data[1]).last_user = Some("alice")

\* The step last taken, or the step before the seconds that passed since,
\* delivered a successful unlock event to lock l while passage mode was
\* active at the event's device timestamp
UnlockedInPassageMode(l) ==
    /\ Tracked(l) /\ last.op \in {"webhook", "tick"} /\ last.lock = l /\ last.ev # None
    /\ Val(last.ev).success /\ EventAction(Val(last.ev).event) = "unlock"
    /\ passage_mode_active(Val(data[l]), Val(last.ev).lock_ts)

\* C11: a successful unlock event applied while passage mode is active at
\* the event's device timestamp creates no auto-lock timer, and locked is
\* false after it and stays false while nothing but time passes.
C11_PassageModeNoAutoLock ==
    /\ [][\A l \in Locks :
            (/\ HookStep(l) /\ StepEvent.success
             /\ EventAction(StepEvent.event) = "unlock"
             /\ passage_mode_active(Val(data[l]), StepEvent.lock_ts))
            => /\ Val(data'[l]).locked = Some(FALSE)
               /\ timers' = timers
               /\ last'.slot = 0]_vars
    /\ [](\A l \in Locks : UnlockedInPassageMode(l) => Val(data[l]).locked = Some(FALSE))

C11_Witness ==
    /\ UnlockedInPassageMode(1) /\ last.op = "tick" /\ last.slot = 0
    /\ Val(data[1]).auto_lock_seconds > 0
    /\ Val(data[1]).locked = Some(FALSE)
    /\ \E s \in TimerSlots : timers[1][s] # None

\* The step is a delivery to the webhook; its records and its outcome
Delivered == last'.op = "handle_webhook"
StepRecords == Val(last'.arg)
StepOutcome == Val(last'.res)

\* The lock ids of the events a delivery dispatched
DispatchedIds(res) == {res.dispatched[i].id : i \in 1..Len(res.dispatched)}

\* C12: a delivery changes only the aggregates (and timers) of the locks
\* whose id is the lock id of one of its events; it creates no aggregate;
\* and when none of its events is for a tracked lock, no callback raises.
C12_OnlyMatchingAggregate ==
    [][Delivered =>
         /\ DOMAIN data' = DOMAIN data
         /\ \A l \in Locks :
               l \notin DispatchedIds(StepOutcome)
               => data'[l] = data[l] /\ timers'[l] = timers[l]
         /\ (DispatchedIds(StepOutcome) \cap Locks = {} => ~StepOutcome.raised)]_vars

C12_Witness ==
    /\ last.op = "handle_webhook"
    /\ Len(Val(last.res).dispatched) = 2
    /\ Val(last.res).dispatched[1].id = 3
    /\ Val(last.res).dispatched[2].id = 1
    /\ Tracked(1) /\ Tracked(2)
    /\ Val(data[1]).last_user = Some("alice")
    /\ Val(data[2]).last_user = None
    /\ ~Val(last.res).raised

\* The events of the records that have every required field, in order
RECURSIVE WellFormedEvents(_)
WellFormedEvents(records) ==
    IF records = <<>> THEN <<>>
    ELSE IF RequiredFields(Head(records))
         THEN <<Val(WebhookEventParse(Head(records)))>> \o WellFormedEvents(Tail(records))
         ELSE WellFormedEvents(Tail(records))

\* Every record type of the delivery is in the event table
KnownRecordTypes(records) ==
    \A i \in 1..Len(records) :
        records[i].recordType = None \/ Val(records[i].recordType) \in DOMAIN EVENTS

C15_ResultingState ==
    (last.op = "webhook")
    => LET e == Val(last.ev)
           locked == WebhookEventState(e).locked
       IN  /\ (locked = Some(State_locked)) <=> (e.success /\ EventAction(e.event) = "lock")
           /\ (locked = Some(State_unlocked)) <=> (e.success /\ EventAction(e.event) = "unlock")
           /\ (locked = None) <=> (~e.success \/ EventAction(e.event) = "unknown")

C15_Witness ==
    /\ Hooked(1) /\ ~Val(last.ev).success
    /\ EventAction(Val(last.ev).event) = "lock"
    /\ WebhookEventState(Val(last.ev)).locked = None
    /\ Val(data[1]).locked = Some(FALSE)

\* The last step read the query `op` of lock l
Queried(l, op) == Tracked(l) /\ last.op = op /\ last.lock = l

\* C16: auto_lock_delay(T) is none when auto_lock_seconds <= 0, none when
\* passage mode is active at T, and auto_lock_seconds otherwise.
C16_AutoLockDelay ==
    \A l \in Locks :
        Queried(l, "auto_lock_delay")
        => LET state == Val(data[l])
               T == TimeAt(Val(last.arg))
           IN  Val(last.res) =
                 IF state.auto_lock_seconds <= 0 THEN None
                 ELSE IF passage_mode_active(state, T) THEN None
                 ELSE Some(state.auto_lock_seconds)

C16_Witness ==
    /\ Queried(1, "auto_lock_delay")
    /\ Val(data[1]).auto_lock_seconds = 0
    /\ ~passage_mode_active(Val(data[1]), TimeAt(Val(last.arg)))
    /\ Val(last.res) = None

\* C17: passage_mode_active is false when the config is absent or not
\* enabled, and otherwise true iff the weekday of T (1 = Monday) is in
\* week_days and (all_day is true or start_minute <= hour * 60 + minute <
\* end_minute).
C17_PassageModeActive ==
    \A l \in Locks :
        Queried(l, "passage_mode_active")
        => LET config == Val(data[l]).passage_mode_config
               clock == Val(last.arg)
               minute == clock.h * 60 + clock.m
           IN  Val(last.res) =
                 IF config = None \/ Val(config).enabled # OnOff_on THEN FALSE
                 ELSE /\ clock.wd \in Val(config).week_days
                      /\ \/ Val(config).all_day = OnOff_on
                         \/ Val(config).start_minute <= minute /\ minute < Val(config).end_minute

\* Wednesday 18:00:00 with the window 06:00-18:00 enabled: not active
C17_Witness ==
    /\ Queried(1, "passage_mode_active")
    /\ Val(last.arg) = [wd |-> 3, h |-> 18, m |-> 0, sec |-> 0]
    /\ Val(Val(data[1]).passage_mode_config).enabled = OnOff_on
    /\ Val(Val(data[1]).passage_mode_config).all_day # OnOff_on
    /\ Val(Val(data[1]).passage_mode_config).week_days = 1..5
    /\ Val(Val(data[1]).passage_mode_config).end_minute = 18 * 60
    /\ Val(last.res) = FALSE

\* C18: the parsed passage mode config has each tri-state field truthy iff
\* the answer has it as 1, and start_minute / end_minute 0 when the answer
\* has them null or not at all.
C18_PassageModeConfigParse ==
    \A l \in Locks :
        (Tracked(l) /\ last.op = "poll_done" /\ last.lock = l)
        => LET raw == Val(last.arg)
               config == Val(Val(data[l]).passage_mode_config)
           IN  /\ OnOffBool(config.enabled) <=> (raw.passageMode = Some(1))
               /\ OnOffBool(config.all_day) <=> (raw.isAllDay = Some(1))
               /\ OnOffBool(config.auto_unlock) <=> (raw.autoUnlock = Some(1))
               /\ raw.startDate = None => config.start_minute = 0
               /\ raw.endDate = None => config.end_minute = 0

C18_Witness ==
    /\ Tracked(1) /\ last.op = "poll_done"
    /\ Val(last.arg).passageMode = Some(0)
    /\ Val(last.arg).isAllDay = Some(2)
    /\ Val(last.arg).startDate = None
    /\ Val(last.arg).endDate # None
    /\ ~OnOffBool(Val(Val(data[1]).passage_mode_config).enabled)
    /\ Val(Val(data[1]).passage_mode_config).start_minute = 0

\* The step ends a poll cycle of lock l: as a success (op "poll_done") or
\* as an UpdateFailed (op "poll_failed")
PollEnds(l, op) == last'.op = op /\ last'.lock = l

\* The state query of the running poll cycle of lock l was sent and raised:
\* the passage mode query is awaited with `locked` still unknown
StateFetchFailed(l) == poll[l].pc = "get_passage" /\ Val(poll[l].new_data).locked = None

C20_PollMergeIdempotent ==
    [][\A l \in Locks :
         (PollEnds(l, "poll_done") /\ Val(data'[l]).locked # None)
         => \A state \in StateResponses :
               PollCycle(data'[l], [details |-> Val(poll[l].details), state |-> state,
                                    config |-> Val(last'.arg)])
                 = Val(data'[l])]_vars

\* A poll that started from an aggregate an event had been applied to
C20_Witness ==
    /\ Tracked(1) /\ last.op = "poll_done" /\ last.lock = 1
    /\ Val(data[1]).locked # None
    /\ Val(data[1]).last_user = Some("alice")

\* C21: a poll cycle that succeeds installs an aggregate whose name,
\* battery_level, hardware_version, firmware_version, features,
\* auto_lock_seconds and passage_mode_config are those of the answers of
\* that cycle, also when the aggregate existed before the cycle.
C21_PollOverwrites ==
    [][\A l \in Locks :
         PollEnds(l, "poll_done")
         => LET details == Val(poll[l].details)
                new == Val(data'[l])
            IN  /\ new.name = details.name
                /\ new.battery_level = details.battery_level
                /\ new.hardware_version = details.hardwareRevision
                /\ new.firmware_version = details.firmwareRevision
                /\ new.features = Some(FromFeatureValue(details.featureValue))
                /\ new.auto_lock_seconds = details.autoLockTime
                /\ new.passage_mode_config = Some(PassageModeConfigParse(Val(last'.arg)))]_vars

\* The gateway-routed remote calls in flight: the state query of a poll, the
\* lock/unlock request of a command, and the set-passage-mode, add-passcode
\* or delete-passcode request of a service call or API method
GatewayCallsInFlight ==
    {<<"poll", l, 0>> : l \in {x \in Locks : poll[x].pc = "get_lock_state"}}
    \cup {<<"cmd", c[1], c[2]>> : c \in {x \in Locks \X CmdSlots : cmds[x[1]][x[2]].pc = "http"}}
    \cup {<<n, 0, 0>> : n \in {x \in ServiceNames : svc[x].pc = "http"}}

\* The tasks that wait for GW_LOCK
GatewayCallsWaiting ==
    {<<"poll", l, 0>> : l \in {x \in Locks : poll[x].pc = "gw_wait"}}
    \cup {<<"cmd", c[1], c[2]>> : c \in {x \in Locks \X CmdSlots : cmds[x[1]][x[2]].pc = "gw_wait"}}
    \cup {<<n, 0, 0>> : n \in {x \in ServiceNames : svc[x].pc = "gw_wait"}}

\* C22: at most one gateway-routed remote call (lock, unlock, set passage
\* mode, add passcode, delete passcode, query lock state) is in flight, over
\* all locks; and a call starts only in a state where none is in flight.
C22_OneGatewayCall ==
    /\ [](Cardinality(GatewayCallsInFlight) <= 1)
    /\ [][(GatewayCallsInFlight' \ GatewayCallsInFlight) # {}
            => GatewayCallsInFlight = {}]_vars

\* A call that had to wait has started while two more are waiting, one of
\* them for another lock
C22_Witness ==
    /\ last.op = "gw_acquired"
    /\ Cardinality(GatewayCallsInFlight) = 1
    /\ Cardinality(GatewayCallsWaiting) >= 2
    /\ \E w \in GatewayCallsWaiting : w[1] = "cmd"
    /\ \E l \in Locks : poll[l].pc \in {"gw_wait", "get_lock_state"}

\* The answers that carry a vendor error: HTTP status below 400 and a
\* non-zero errcode
VendorErrors == {resp \in Responses : resp.status_ok /\ resp.errcode # 0}

\* C23: a lock(), unlock() or set-passage-mode command whose remote call is
\* answered with a vendor error hands the failure to its caller as a value:
\* the command does not end in an exception.
C23_VendorErrorIsResult ==
    [][\A resp \in VendorErrors :
         /\ \A l \in Locks, i \in CmdSlots :
                CmdDone(l, i, resp) => last'.op = "cmd_false"
         /\ ConfigurePassageModeDone(resp) => last'.op # "svc_raised"]_vars

\* The step is a later lock of lock l: a successful lock event is applied,
\* or a lock() call ends in success
LaterLock(l) ==
    /\ last'.lock = l
    /\ \/ (last'.op = "webhook" /\ WebhookEventState(Val(last'.ev)).locked = Some(State_locked))
       \/ (last'.op = "cmd_ok" /\ cmds[l][last'.slot].kind = "lock")

\* A task of lock 1 in slot s is pending and the lock has been locked again
\* by the last step
RelockedWhilePending(s) ==
    /\ timers[1][s] # None
    /\ last.lock = 1
    /\ Val(data[1]).locked = Some(TRUE)
    /\ last.op \in {"webhook", "cmd_ok"}

\* The task of lock l in slot s has just run to its end
Fired(l, s) == last.op = "timer" /\ last.lock = l /\ last.slot = s

\* C24: a later lock (a lock event or a lock() call) leaves the pending
\* auto-lock tasks as they are; the task still runs, and when it has run
\* locked is true, also when the lock had been locked again before.
C24_TimerNotCancelled ==
    /\ [][\A l \in Locks : LaterLock(l) => timers' = timers]_vars
    /\ [][\A l \in Locks, s \in TimerSlots :
            (timers[l][s] # None /\ timers'[l][s] = None)
            => (last'.op = "timer" /\ last'.lock = l /\ last'.slot = s
                /\ Val(data'[l]).locked = Some(TRUE))]_vars
    /\ \A s \in TimerSlots :
          RelockedWhilePending(s) ~> (Fired(1, s) /\ Val(data[1]).locked = Some(TRUE))

\* The task an unlock by alice created has run after a lock event that
\* names no user had locked the lock again
C24_Witness ==
    /\ \E s \in TimerSlots : Fired(1, s)
    /\ Val(data[1]).locked = Some(TRUE)
    /\ Val(data[1]).last_reason = Some("Auto Lock")
    /\ Val(data[1]).last_user = None

\* C25: the aggregate of a lock comes into existence only by the step that
\* ends a successful poll of that lock; a delivery with events for a lock
\* that has no aggregate leaves it without one.
C25_AggregateOnlyFromPoll ==
    [][\A l \in Locks :
         /\ (data[l] = None /\ data'[l] # None) => PollEnds(l, "poll_done")
         /\ (data[l] = None /\ Delivered) => data'[l] = None]_vars

\* A successful event for lock 2 has been dispatched while lock 2 has no
\* aggregate, and lock 2 still has none
C25_Witness ==
    /\ last.op = "handle_webhook"
    /\ \E i \in 1..Len(Val(last.res).dispatched) :
          Val(last.res).dispatched[i].id = 2 /\ Val(last.res).dispatched[i].success
    /\ data[2] = None
    /\ Val(last.res).raised

\* The step is the return of the call `name`
Returned(name) == last'.op = "svc_returned" /\ Val(last'.arg).service = name

\* The ids of the passcodes a call asked the vendor to delete
DeletedIds(out) == {out.calls[i].id : i \in 1..Len(out.calls)}

\* C26: a passcode of permanent type is never taken as expired, whatever
\* its end date; one of temporary type is taken as expired exactly when its
\* end date is strictly earlier than the current time.  (Seen by what
\* delete_outdated_pass_codes deletes of a listing.)
C26_PasscodeExpired ==
    [][Returned("delete_outdated_pass_codes")
         => LET out == Val(last'.res)
                codes == out.listed[1].codes
            IN  \A i \in 1..Len(codes) :
                   /\ codes[i].keyboardPwdType = PasscodeType_permanent
                        => codes[i].keyboardPwdId \notin DeletedIds(out)
                   /\ codes[i].keyboardPwdType = PasscodeType_temporary
                        => (codes[i].keyboardPwdId \in DeletedIds(out)
                              <=> codes[i].endDate < out.now)]_vars

\* A listing of a permanent passcode whose end date is past and a
\* temporary one that ends this very millisecond: neither was deleted
C26_Witness ==
    /\ last.op = "svc_returned"
    /\ Val(last.arg).service = "delete_outdated_pass_codes"
    /\ LET out == Val(last.res)
       IN  /\ Len(out.listed[1].codes) = 2
           /\ out.listed[1].codes[1].keyboardPwdType = PasscodeType_permanent
           /\ out.listed[1].codes[1].endDate < out.now
           /\ out.listed[1].codes[2].keyboardPwdType = PasscodeType_temporary
           /\ out.listed[1].codes[2].endDate = out.now
           /\ out.calls = <<>>

\* The passcodes of the listings that are expired at `now`, in the order of
\* the listings, each with the lock of its listing
RECURSIVE ExpiredOfListings(_, _)
ExpiredOfListings(listed, now) ==
    IF listed = <<>> THEN <<>>
    ELSE LET expired ==
                 SelectSeq(Head(listed).codes,
                           LAMBDA c : c.type = PasscodeType_temporary /\ c.end_date < now)
         IN  [i \in 1..Len(expired) |->
                 [lock |-> Head(listed).lock, id |-> expired[i].id, name |-> expired[i].name]]
             \o ExpiredOfListings(Tail(listed), now)

\* C27: a cleanup_passcodes call that returns has asked, for each lock it
\* listed, for the deletion of exactly the passcodes of the listing that are
\* expired (of none when none is, or the listing is empty), and returns as
\* `removed` the names of exactly those passcodes, in listing order.
C27_CleanupRemovesExpired ==
    [][Returned("cleanup_passcodes")
         => LET out == Val(last'.res)
                expired == ExpiredOfListings(out.listed, out.now)
            IN  /\ out.calls = [i \in 1..Len(expired) |->
                                  [lock |-> expired[i].lock, id |-> expired[i].id]]
                /\ out.value = [i \in 1..Len(expired) |-> expired[i].name]]_vars

\* A call for two locks has returned: of lock 1 it deleted the one expired
\* passcode of two, of lock 2 nothing
C27_Witness ==
    /\ last.op = "svc_returned"
    /\ Val(last.arg).service = "cleanup_passcodes"
    /\ LET out == Val(last.res)
       IN  /\ Len(out.listed) = 2
           /\ out.listed[1].lock = 1 /\ Len(out.listed[1].codes) = 2
           /\ out.listed[2].lock = 2 /\ Len(out.listed[2].codes) = 1
           /\ out.calls = <<[lock |-> 1, id |-> 2]>>
           /\ out.value = <<"Person B">>

\* `locked` is unknown in the aggregate of lock l (or there is none yet)
LockedUnknown(l) == data[l] = None \/ Val(data[l]).locked = None

\* The state query of the running poll cycle of lock l is sent or queued
StateQuerySent(l) == poll[l].pc \in {"get_lock_state", "gw_wait"}

\* C28: when a poll cycle has the lock details and takes its copy of the
\* aggregate, it sends the state query exactly when `locked` is unknown in
\* that aggregate; when `locked` is known it goes on to the passage mode
\* fetch without a state query, and the aggregate it installs has the
\* `locked` of the aggregate it started from.
C28_StateQueryIffUnknown ==
    /\ [][\A l \in Locks :
            (last'.op = "poll_details" /\ last'.lock = l)
            => /\ StateQuerySent(l)' <=> LockedUnknown(l)
               /\ ~LockedUnknown(l)
                    => /\ poll'[l].pc = "get_passage"
                       /\ Val(poll'[l].new_data).locked = Val(data[l]).locked]_vars
    /\ [][\A l \in Locks :
            (~StateQuerySent(l) /\ StateQuerySent(l)') => last'.op = "poll_details"]_vars
    /\ [][\A l \in Locks :
            (poll[l].pc = "get_passage" /\ poll'[l].pc = "get_passage")
            => poll'[l].new_data = poll[l].new_data]_vars
    /\ [][\A l \in Locks :
            PollEnds(l, "poll_done")
            => Val(data'[l]).locked = Val(poll[l].new_data).locked]_vars

\* A poll cycle found `locked` known (false) and went on to the passage
\* mode fetch without a state query
C28_Witness ==
    /\ last.op = "poll_details" /\ last.lock = 1
    /\ poll[1].pc = "get_passage"
    /\ Tracked(1) /\ Val(data[1]).locked = Some(FALSE)
    /\ Val(poll[1].new_data).locked = Some(FALSE)

\* The sleep of a task created for an unlock stamped Td by the lock and Ts
\* by the server, when the auto-lock delay is d seconds
ClaimedWait(d, Td, Ts) ==
    LET transit == IF Ts - Td > 0 THEN Ts - Td ELSE 0
    IN  IF d - transit > 0 THEN d - transit ELSE 0

\* C29: the task created for an unlock event waits
\* max(0, d - max(0, Ts - Td)) seconds before it re-locks, d being the
\* auto-lock delay: a server timestamp earlier than the lock timestamp counts
\* as no transit time, so the task waits d, and a transit time of d or more
\* makes it re-lock without waiting.
C29_TimerWait ==
    [][\A l \in Locks :
         (HookStep(l) /\ last'.slot # 0)
         => LET d == Val(data[l]).auto_lock_seconds
                wait == Val(timers'[l][last'.slot]).wait
            IN  /\ timers[l][last'.slot] = None
                /\ wait = ClaimedWait(d, StepEvent.lock_ts, StepEvent.server_ts)
                /\ (StepEvent.server_ts < StepEvent.lock_ts => wait = d)
                /\ (StepEvent.server_ts - StepEvent.lock_ts >= d => wait = 0)]_vars

\* An unlock event that was longer in transit than the auto-lock delay has
\* created a task that does not wait
C29_Witness ==
    /\ last.op = "webhook" /\ last.lock = 1 /\ last.slot # 0
    /\ data[1] # None /\ Val(data[1]).auto_lock_seconds = 1
    /\ Val(last.ev).server_ts - Val(last.ev).lock_ts = 2
    /\ timers[1][last.slot] = Some([wait |-> 0])

\* _handle_auto_lock would create no task for lock l in the state `d` of the
\* aggregates: auto_lock_seconds is not positive or passage mode is active
NoAutoLock(d, l) == d[l] # None /\ auto_lock_delay(Val(d[l]), SatSevenPm) = None

\* A task of lock 1 in slot s is pending although _handle_auto_lock would
\* create none now
StalePending(s) == timers[1][s] # None /\ NoAutoLock(data, 1)

\* C30: whether a task re-locks is decided when it is created. A poll or a
\* configure_passage_mode call that makes passage mode active or
\* auto_lock_seconds not positive leaves the pending tasks as they are; a
\* pending task ends only by running, with locked true afterwards, also
\* when no task would be created any more; and such a task does run.
C30_DecidedWhenScheduled ==
    /\ [][\A l \in Locks :
            (NoAutoLock(data', l) /\ ~NoAutoLock(data, l))
            => (timers' = timers /\ last'.op \in {"poll_done", "svc_returned"})]_vars
    /\ [][\A l \in Locks, s \in TimerSlots :
            (timers[l][s] # None /\ NoAutoLock(data, l))
            => \/ timers'[l][s] # None
               \/ /\ last'.op = "timer" /\ last'.lock = l /\ last'.slot = s
                  /\ timers'[l][s] = None
                  /\ Val(data'[l]).locked = Some(TRUE)
                  /\ Val(data'[l]).last_reason = Some("Auto Lock")]_vars
    /\ \A s \in TimerSlots :
          StalePending(s) ~> (Fired(1, s) /\ Val(data[1]).locked = Some(TRUE))

\* A task has re-locked the lock after a configure_passage_mode call had
\* made passage mode active all day on every day of the week
C30_Witness ==
    /\ \E s \in TimerSlots : Fired(1, s)
    /\ NoAutoLock(data, 1)
    /\ Val(data[1]).auto_lock_seconds > 0
    /\ \E call \in ConfigCalls :
          call.enabled /\ Val(data[1]).passage_mode_config = Some(ConfigFromCall(call))
    /\ Val(data[1]).locked = Some(TRUE)
    /\ Val(data[1]).last_reason = Some("Auto Lock")

\* The step applies a successful unlock event to lock l for which
\* _handle_auto_lock creates a task
UnlockScheduling(l) ==
    /\ HookStep(l) /\ StepEvent.success /\ EventAction(StepEvent.event) = "unlock"
    /\ auto_lock_delay(Val(data[l]), StepEvent.lock_ts) # None

\* The aggregate `d` shows the unlock of event e
ShowsUnlock(d, e) ==
    /\ d.locked = Some(FALSE)
    /\ d.last_user = e.user
    /\ d.last_reason = Some(EventDescriptionOf(e.event))

\* The aggregate `d` shows the re-lock of an _auto_locked task
ShowsAutoLock(d) == d.locked = Some(TRUE) /\ d.last_reason = Some("Auto Lock")

\* C31: the re-lock that an unlock event causes is applied after the unlock
\* update of that event, also when the task does not wait: the step of the
\* event installs locked = false with the actor and the reason of the event
\* and leaves the task pending; the task, when it runs next, finds that
\* aggregate and installs locked = true with last_reason "Auto Lock"; and
\* the task does run, so that the lock ends up locked.
C31_UnlockBeforeAutoLock ==
    /\ [][\A l \in Locks :
            UnlockScheduling(l)
            => /\ ShowsUnlock(Val(data'[l]), StepEvent)
               /\ \E s \in TimerSlots : timers[l][s] = None /\ timers'[l][s] # None]_vars
    /\ [][\A l \in Locks, s \in TimerSlots :
            (JustScheduled(l, s) /\ TimerFire(l, s))
            => /\ ShowsUnlock(Val(data[l]), Val(last.ev))
               /\ ShowsAutoLock(Val(data'[l]))]_vars
    /\ \A s \in TimerSlots :
          (JustScheduled(1, s) /\ Val(timers[1][s]).wait = 0)
          ~> (Fired(1, s) /\ ShowsAutoLock(Val(data[1])))

\* The task of an unlock by alice that did not wait has run right after the
\* event: the lock is locked by "Auto Lock" and alice is still the last user
C31_Witness ==
    /\ \E s \in TimerSlots : Fired(1, s)
    /\ last.ev # None
    /\ AutoLockedSleep(Val(data[1]).auto_lock_seconds,
                       Max0(Val(last.ev).server_ts - Val(last.ev).lock_ts)) = 0
    /\ ShowsAutoLock(Val(data[1]))
    /\ Val(data[1]).last_user = Some("alice")

\* The step belongs to a poll cycle of lock l and is not its successful end
PollStepBeforeEnd(l) ==
    /\ last'.lock = l
    /\ last'.op \in {"poll_start", "poll_details", "poll_state", "poll_failed"}

\* C32: a poll cycle that ends in failure (get_lock or
\* get_lock_passage_mode_config raised) writes nothing to the aggregate:
\* no step of the cycle up to and including the failing one changes a
\* field, also when the details had been fetched and merged into new_data.
C32_FailedPollWritesNothing ==
    [][\A l \in Locks :
         /\ PollStepBeforeEnd(l) => data' = data
         /\ (PollEnds(l, "poll_failed") /\ poll[l].new_data # None)
            => (data'[l] = data[l] /\ last'.res = poll[l].new_data)]_vars

\* A cycle has failed at the passage mode query after it had fetched other
\* details than the aggregate holds, and the aggregate still has its own
C32_Witness ==
    /\ last.op = "poll_failed" /\ last.lock = 1 /\ last.res # None
    /\ data[1] # None
    /\ Val(last.res).name # Val(data[1]).name
    /\ Val(last.res).battery_level # Val(data[1]).battery_level
    /\ Val(last.res).auto_lock_seconds # Val(data[1]).auto_lock_seconds

\* The aggregates `before` and `after` differ in locked and action_pending
\* at most
OnlyLockedAndPending(before, after) ==
    [after EXCEPT !.locked = before.locked, !.action_pending = before.action_pending] = before

\* C33: lock() sets locked to true and unlock() sets it to false when the
\* remote call returned success, and only then: when it returned failure or
\* raised, locked keeps its value.  Neither the start nor the end of the
\* command changes a field other than locked and action_pending.
C33_CommandWritesLockedOnSuccess ==
    [][\A l \in Locks :
         /\ (last'.op = "cmd_start" /\ last'.lock = l)
            => /\ OnlyLockedAndPending(Val(data[l]), Val(data'[l]))
               /\ Val(data'[l]).locked = Val(data[l]).locked
         /\ \A i \in CmdSlots, resp \in Responses :
               CmdDone(l, i, resp)
               => /\ OnlyLockedAndPending(Val(data[l]), Val(data'[l]))
                  /\ Val(data'[l]).locked =
                        IF resp.status_ok /\ resp.errcode = 0
                        THEN Some(cmds[l][i].kind = "lock")
                        ELSE Val(data[l]).locked]_vars

\* A command whose remote call raised has ended: the lock is unlocked as
\* the unlock event before the command left it, and action_pending is cleared
C33_Witness ==
    /\ last.op = "cmd_raised" /\ last.lock = 1
    /\ Val(data[1]).locked = Some(FALSE)
    /\ Val(data[1]).last_reason = Some("unlock by app")
    /\ ~Val(data[1]).action_pending

\* A successful unlock() of lock l has just ended
JustUnlockedByCommand(l) ==
    /\ last.op = "cmd_ok" /\ last.lock = l
    /\ Val(data[l]).locked = Some(FALSE)

\* C34: a successful unlock() creates no _auto_locked task, and locked,
\* false after it, stays false until a webhook event, a task created by an
\* earlier event, or a lock() changes it.
C34_UnlockCommandSchedulesNothing ==
    [][\A l \in Locks :
         /\ \A i \in CmdSlots, resp \in Responses :
               (CmdDone(l, i, resp) /\ cmds[l][i].kind = "unlock" /\ last'.op = "cmd_ok")
               => (timers' = timers /\ Val(data'[l]).locked = Some(FALSE))
         /\ (JustUnlockedByCommand(l) /\ Val(data'[l]).locked # Some(FALSE))
            => last'.op \in {"webhook", "timer", "cmd_ok"}]_vars

\* The tasks of lock l that are pending
Pending(l) == {s \in DOMAIN timers[l] : timers[l][s] # None}

\* C35: the _auto_locked tasks are independent of each other. A successful
\* unlock event for which _handle_auto_lock finds a delay adds exactly one
\* task and no event takes a pending task away or changes its wait; a task
\* that runs installs locked = true with last_reason "Auto Lock", also while
\* the task of a later unlock is still waiting, and leaves the other tasks
\* pending; and every pending task does run.
C35_TimersIndependent ==
    /\ [][\A l \in Locks :
            HookStep(l)
            => /\ \A s \in Pending(l) : timers'[l][s] = timers[l][s]
               /\ UnlockScheduling(l)
                  => \E s \in DOMAIN timers[l] : Pending(l)' = Pending(l) \cup {s}
                                                  /\ s \notin Pending(l)
               /\ ~UnlockScheduling(l) => timers' = timers]_vars
    /\ [][\A l \in Locks : \A s \in DOMAIN timers[l] :
            TimerFire(l, s)
            => /\ ShowsAutoLock(Val(data'[l]))
               /\ Pending(l)' = Pending(l) \ {s}
               /\ \A s2 \in Pending(l) \ {s} : timers'[l][s2] = timers[l][s2]]_vars
    /\ \A s \in OverlapSlots :
          (timers[1][s] # None) ~> (Fired(1, s) /\ ShowsAutoLock(Val(data[1])))

\* The task of a first unlock has run and locked the lock while the task of
\* a second unlock is still waiting
C35_Witness ==
    /\ \E s \in OverlapSlots : Fired(1, s)
    /\ \E s2 \in OverlapSlots : timers[1][s2] # None /\ Val(timers[1][s2]).wait > 0
    /\ ShowsAutoLock(Val(data[1]))

\* C36: the state query of a poll that found locked unknown sets locked of
\* the aggregate the poll returns to true when the answer is State.locked
\* (0) and to false when it is State.unlocked (1) or State.unknown (2); when
\* the query raises, locked stays unknown, and in either case the poll goes
\* on with the passage mode query, whose answer installs that aggregate.
C36_LockedFromStateQuery ==
    [][\A l \in Locks :
         /\ \A resp \in Responses, state \in StateResponses :
               PollGotState(l, resp, state)
               => /\ Val(poll[l].new_data).locked = None
                  /\ poll'[l].pc = "get_passage"
                  /\ data' = data
                  /\ Val(poll'[l].new_data).locked =
                        IF ~(resp.status_ok /\ resp.errcode = 0) THEN None
                        ELSE IF Val(state.locked) = 0 THEN Some(TRUE)
                        ELSE Some(FALSE)
         /\ (PollEnds(l, "poll_done") /\ ~poll[l].pushed)
            => Val(data'[l]).locked = Val(poll[l].new_data).locked]_vars

\* The state query of a poll was answered with State.unknown, and the
\* aggregate the poll is about to return has locked = false
C36_Witness ==
    /\ last.op = "poll_state" /\ last.lock = 1
    /\ last.arg = Some([locked |-> Some(2)])
    /\ poll[1].pc = "get_passage"
    /\ Val(poll[1].new_data).locked = Some(FALSE)

\* The passage mode config of lock l is enabled, not all day, and its window
\* does not end after it starts
EmptyWindow(l) ==
    /\ Val(data[l]).passage_mode_config # None
    /\ LET config == Val(Val(data[l]).passage_mode_config)
       IN  /\ config.enabled = OnOff_on
           /\ config.all_day # OnOff_on
           /\ config.start_minute >= config.end_minute

\* C37: with an enabled passage mode config that is not all day and has
\* start_minute >= end_minute (a window meant to span midnight, or the 0/0
\* of an answer without minutes), passage_mode_active is false at every
\* instant of every day, and auto_lock_delay is auto_lock_seconds whenever
\* that is positive.
C37_EmptyWindowNeverActive ==
    \A l \in Locks :
        /\ (Queried(l, "passage_mode_active") /\ EmptyWindow(l))
           => Val(last.res) = FALSE
        /\ (Queried(l, "auto_lock_delay") /\ EmptyWindow(l))
           => Val(last.res) = IF Val(data[l]).auto_lock_seconds > 0
                              THEN Some(Val(data[l]).auto_lock_seconds)
                              ELSE None

\* Wednesday 23:00 with the window 22:00 to 06:00 enabled on every day:
\* not active
C37_Witness ==
    /\ Queried(1, "passage_mode_active") /\ EmptyWindow(1)
    /\ Val(last.arg) = [wd |-> 3, h |-> 23, m |-> 0, sec |-> 0]
    /\ Val(Val(data[1]).passage_mode_config).start_minute = 22 * 60
    /\ Val(Val(data[1]).passage_mode_config).end_minute = 6 * 60
    /\ 3 \in Val(Val(data[1]).passage_mode_config).week_days
    /\ Val(last.res) = FALSE

\* C38: passage_mode_active called without a time, as the passage mode
\* sensor calls it, yields what the schedule says at the time of the call.
C38_SensorFollowsClock ==
    \A l \in Locks :
        Queried(l, "sensor_update")
        => Val(last.res) = passage_mode_active(Val(data[l]), TimeAt(Val(last.arg)))

\* The coordinators of a session that was torn down: every coordinator while
\* the entry is unloaded, and afterwards those of the earlier setups
TornDown == IF hass_data = None THEN Locks ELSE Locks \ LatestCoordinators

\* The coordinators whose _process_webhook_data installs an aggregate for e
AppliedBy(e) == {c \in Locks : ProcessWebhookData(data[c], LockIdOf(c), e).installed}

\* C39: an event dispatched after the entry was unloaded changes no
\* aggregate of a torn-down coordinator and schedules no timer for it, and
\* while the entry is loaded an event of a lock is applied by exactly one
\* coordinator
C39_TornDownCoordinatorsIgnoreEvents ==
    [][last'.op = "webhook" =>
          /\ \A c \in TornDown : data'[c] = data[c] /\ timers'[c] = timers[c]
          /\ (hass_data # None /\ Val(hass_data).locks # None)
                => Cardinality(AppliedBy(Val(last'.ev))) = 1]_vars

\* C40: GW_LOCK is held only while a gateway-routed call is in flight, so
\* every way such a call ends, raising included, has released it; and when
\* every request sent is answered or fails, every task that waits for
\* GW_LOCK gets it
C40_GatewayLockReleased ==
    /\ [](gw_locked => GatewayCallsInFlight # {})
    /\ [][(GatewayCallsInFlight # {} /\ GatewayCallsInFlight' = {}) => ~gw_locked']_vars
    /\ \A l \in {1, 2} :
          (<<"poll", l, 0>> \in GatewayCallsWaiting) ~> (<<"poll", l, 0>> \in GatewayCallsInFlight)
    /\ \A i \in CmdSlots :
          (<<"cmd", 1, i>> \in GatewayCallsWaiting) ~> (<<"cmd", 1, i>> \in GatewayCallsInFlight)
    /\ (<<"configure_passage_mode", 0, 0>> \in GatewayCallsWaiting)
          ~> (<<"configure_passage_mode", 0, 0>> \in GatewayCallsInFlight)

\* A lock() call whose request raised has ended and released GW_LOCK while
\* two tasks wait for it
C40_Witness ==
    /\ last.op = "cmd_raised"
    /\ ~gw_locked
    /\ GatewayCallsInFlight = {}
    /\ Cardinality(GatewayCallsWaiting) >= 2

====
